---- MODULE Spec2Model ----
(***************************************************************************)
(* A model of the qc-v2 log ingestion pipeline: the line parser and the    *)
(* backfill loop of src/src/parse_logs.h and the tailing loop of           *)
(* src/src/main.cpp.                                                       *)
(*                                                                         *)
(* Conventions.                                                            *)
(*  - An instant (system_clock::time_point) is an integer number of        *)
(*    seconds; a duration is an integer number of seconds and may be       *)
(*    negative, as system_clock::duration may.                             *)
(*  - std::optional<T> is a sequence of length at most one.                *)
(*  - A text line is a record: ts is the value of the leading [HH:MM:SS]   *)
(*    stamp (empty when from_stream fails), tag tells whether a "[...]:"   *)
(*    source tag follows, toks are the whitespace separated words that     *)
(*    remain and sp tells whether white space follows the last word.       *)
(*  - A file is a sequence of newline terminated lines; sizes and read     *)
(*    offsets are counted in lines.                                        *)
(***************************************************************************)
EXTENDS Integers, Sequences, FiniteSets, TLC

(***************************************************************************)
(* Bounds of the model.                                                    *)
(***************************************************************************)
MaxLines == 3
MaxFileOps == 3
MaxNotes == 2

(***************************************************************************)
(* Time.                                                                   *)
(***************************************************************************)
SecondsPerHour == 60 * 60
SecondsPerDay == 24 * SecondsPerHour
NineOClock == 9 * SecondsPerHour
TenOClock == 10 * SecondsPerHour

None == << >>
Some(v) == << v >>
HasValue(o) == Len(o) = 1
Value(o) == o[1]

(***************************************************************************)
(* uuid_t and detail::parse_uuid.  A std::uint64_t is a tuple of 16        *)
(* hexadecimal digits, least significant first, so that the shifts and     *)
(* the wrap-around of the additions are those of the code.                 *)
(***************************************************************************)
Nibbles == 1..16
U64Zero == [k \in Nibbles |-> 0]
U64AllOnes == [k \in Nibbles |-> 15]
U64Of(d) == [k \in Nibbles |-> IF k = 1 THEN d ELSE 0]
\* x << (4 * n)
ShiftLeft(x, n) == [k \in Nibbles |-> IF k > n THEN x[k - n] ELSE 0]

\* a + b modulo 2^64.  The carry into digit k is 1 exactly when a lower
\* digit j overflows and every digit between j and k passes a carry on.
CarryInto(a, b, k) ==
    \E j \in 1..(k - 1) :
        /\ a[j] + b[j] > 15
        /\ \A m \in (j + 1)..(k - 1) : a[m] + b[m] = 15
Add64(a, b) ==
    [k \in Nibbles |-> (a[k] + b[k] + IF CarryInto(a, b, k) THEN 1 ELSE 0) % 16]

DecDigits == <<"0", "1", "2", "3", "4", "5", "6", "7", "8", "9">>
LowerHex == <<"a", "b", "c", "d", "e", "f">>
UpperHex == <<"A", "B", "C", "D", "E", "F">>
IndexIn(c, s) == IF \E i \in DOMAIN s : s[i] = c
                 THEN CHOOSE i \in DOMAIN s : s[i] = c
                 ELSE 0

\* the lambda hex_digit_to_uint64: "return -1" converts to 0xFFFFFFFFFFFFFFFF
hex_digit_to_uint64(c) ==
    IF IndexIn(c, DecDigits) > 0 THEN U64Of(IndexIn(c, DecDigits) - 1)
    ELSE IF IndexIn(c, LowerHex) > 0 THEN U64Of(IndexIn(c, LowerHex) + 9)
    ELSE IF IndexIn(c, UpperHex) > 0 THEN U64Of(IndexIn(c, UpperHex) + 9)
    ELSE U64AllOnes

\* the 32 digit characters of xxxxxxxx-xxxx-xxxx-xxxx-xxxxxxxxxxxx (arr)
UuidDigits(str) ==
    SubSeq(str, 1, 8) \o SubSeq(str, 10, 13) \o SubSeq(str, 15, 18)
        \o SubSeq(str, 20, 23) \o SubSeq(str, 25, 36)

\* iteration i of one of the two accumulation loops.  acc is the set that
\* holds the value accumulated so far, and is empty once the function has
\* returned the empty optional.
AccumulateStep(digits, i, acc) ==
    UNION { IF val = U64AllOnes THEN {} ELSE { Add64(sum, val) } :
              sum \in acc,
              val \in { ShiftLeft(hex_digit_to_uint64(digits[i + 1]), i) } }
\* the loop "for (i = 0; i < 16; i++)": after[i] is the set left by the
\* first i iterations
AccumulateHalf(d) ==
    LET after[i \in 0..16] ==
            IF i = 0 THEN { U64Zero } ELSE AccumulateStep(d, i - 1, after[i - 1])
    IN  after[16]

\* the value returned once both loops have run: first and second are the
\* sets left by the loops
MakeUuid(first, second) ==
    IF first = {} \/ second = {} THEN None
    ELSE Some([first |-> CHOOSE v \in first : TRUE,
               second |-> CHOOSE v \in second : TRUE])
\* str holds exactly 36 characters
parse_uuid(str) ==
    IF \E i \in {9, 14, 19, 24} : str[i] # "-" THEN None
    ELSE MakeUuid(AccumulateHalf(SubSeq(UuidDigits(str), 1, 16)),
                  AccumulateHalf(SubSeq(UuidDigits(str), 17, 32)))

\* operator<=> of uuid_t: first, then second, each as an unsigned number
U64Less(a, b) ==
    \E k \in Nibbles : a[k] < b[k] /\ \A m \in (k + 1)..16 : a[m] = b[m]
UuidLess(l, r) ==
    IF l.first # r.first THEN U64Less(l.first, r.first)
    ELSE U64Less(l.second, r.second)

(***************************************************************************)
(* The words of a line.  A word is a string; the characters of the words   *)
(* that are UUID texts are given by CharsOf (every other word of the       *)
(* model is shorter than 36 characters).                                   *)
(***************************************************************************)
CharsA ==
    << "0", "0", "0", "0", "0", "0", "0", "0", "-", "0", "0", "0",
       "0", "-", "0", "0", "0", "0", "-", "0", "0", "0", "0", "-",
       "0", "0", "0", "0", "0", "0", "0", "0", "0", "0", "0", "a" >>
CharsB ==
    << "0", "0", "0", "0", "0", "0", "0", "0", "-", "0", "0", "0",
       "0", "-", "0", "0", "0", "0", "-", "0", "0", "0", "0", "-",
       "0", "0", "0", "0", "0", "0", "0", "0", "0", "0", "0", "b" >>
CharsG ==
    << "g", "0", "0", "0", "0", "0", "0", "0", "-", "0", "0", "0",
       "0", "-", "0", "0", "0", "0", "-", "0", "0", "0", "0", "-",
       "0", "0", "0", "0", "0", "0", "0", "0", "0", "0", "0", "a" >>
CharsH ==
    << "0", "g", "0", "0", "0", "0", "0", "0", "-", "0", "0", "0",
       "0", "-", "0", "0", "0", "0", "-", "0", "0", "0", "0", "-",
       "0", "0", "0", "0", "0", "0", "0", "0", "0", "0", "0", "a" >>
CharsN ==
    << "0", "0", "0", "0", "0", "0", "0", "0", "x", "0", "0", "0",
       "0", "-", "0", "0", "0", "0", "-", "0", "0", "0", "0", "-",
       "0", "0", "0", "0", "0", "0", "0", "0", "0", "0", "0", "a" >>
CharsOf(word) ==
    CASE word = "00000000-0000-0000-0000-00000000000a" -> CharsA
      [] word = "00000000-0000-0000-0000-00000000000b" -> CharsB
      [] word = "g0000000-0000-0000-0000-00000000000a" -> CharsG
      [] word = "0g000000-0000-0000-0000-00000000000a" -> CharsH
      [] word = "00000000x0000-0000-0000-00000000000a" -> CharsN
      [] OTHER -> << >>
TextA == "00000000-0000-0000-0000-00000000000a"
TextB == "00000000-0000-0000-0000-00000000000b"
TextG == "g0000000-0000-0000-0000-00000000000a"
TextH == "0g000000-0000-0000-0000-00000000000a"
TextN == "00000000x0000-0000-0000-00000000000a"
UuidTexts == {TextA, TextB, TextG, TextH, TextN}
\* parse_uuid of each UUID text of the model, computed once
ParsedA == parse_uuid(CharsA)
ParsedB == parse_uuid(CharsB)
ParsedG == parse_uuid(CharsG)
ParsedH == parse_uuid(CharsH)
ParsedN == parse_uuid(CharsN)
ParsedUuid(w) ==
    CASE w = TextA -> ParsedA [] w = TextB -> ParsedB [] w = TextG -> ParsedG
      [] w = TextH -> ParsedH [] w = TextN -> ParsedN
UuidA == Value(ParsedA)
UuidB == Value(ParsedB)

(***************************************************************************)
(* The stream state after k extractions (ss >> str) have been attempted    *)
(* on the words of a line.                                                 *)
(***************************************************************************)
Fail(line, k) == k > Len(line.toks)
Eof(line, k) == k > Len(line.toks) \/ (k = Len(line.toks) /\ ~line.sp)
\* the value of a string variable after the k-th extraction wrote to it;
\* old is its value before, kept when the extraction fails
Word(line, k, old) == IF k <= Len(line.toks) THEN line.toks[k] ELSE old

(***************************************************************************)
(* parse_ctx_t, log_data_t                                                 *)
(***************************************************************************)
NoPlayer == [uuid |-> None, join_time |-> None]
\* ctx.player_info[name]: operator[] of the unordered_map inserts an entry
Touch(player_info, name) ==
    IF name \in DOMAIN player_info THEN player_info
    ELSE [n \in DOMAIN player_info \cup {name} |->
            IF n = name THEN NoPlayer ELSE player_info[n]]
NoFile == [kind |-> "none", day |-> 0, seq |-> 0, gz |-> FALSE]
InitCtx ==
    [cur_filename |-> NoFile, date_tp |-> 0, line |-> 0,
     player_info |-> << >>, server_stopped |-> FALSE]
EmptyData == << >>
NoEntry == [names |-> << >>, sessions |-> << >>, total |-> 0]
\* data[uuid]: operator[] of the map inserts an entry
Entry(data, uuid) == IF uuid \in DOMAIN data THEN data[uuid] ELSE NoEntry
Put(data, uuid, e) ==
    [u \in DOMAIN data \cup {uuid} |-> IF u = uuid THEN e ELSE data[u]]

\* CloseSession without the statement "total += playtime"
CloseSessionTotalKept(pi, data, name, leave_time) ==
    LET uuid == Value(pi[name].uuid)
        join == Value(pi[name].join_time)
        old == Entry(data, uuid)
        names == IF old.names = << >> \/ old.names[Len(old.names)] # name
                 THEN Append(old.names, name) ELSE old.names
    IN  [pi |-> [pi EXCEPT ![name].join_time = None],
         data |-> Put(data, uuid,
                      [names |-> names,
                       sessions |-> Append(old.sessions, <<join, leave_time - join>>),
                       total |-> old.total])]

\* CloseSession without the comparison of the name with names.back()
CloseSessionNameAppended(pi, data, name, leave_time) ==
    LET uuid == Value(pi[name].uuid)
        join == Value(pi[name].join_time)
        old == Entry(data, uuid)
        playtime == leave_time - join
    IN  [pi |-> [pi EXCEPT ![name].join_time = None],
         data |-> Put(data, uuid,
                      [names |-> Append(old.names, name),
                       sessions |-> Append(old.sessions, <<join, playtime>>),
                       total |-> old.total + playtime])]

\* the body shared by player_left and the loop of clear_all_players: close
\* the session of name, whose uuid and join_time are both present
CloseSession(pi, data, name, leave_time) ==
    LET uuid == Value(pi[name].uuid)
        join == Value(pi[name].join_time)
        old == Entry(data, uuid)
        names == IF old.names = << >> \/ old.names[Len(old.names)] # name
                 THEN Append(old.names, name) ELSE old.names
        playtime == leave_time - join
    IN  [pi |-> [pi EXCEPT ![name].join_time = None],
         data |-> Put(data, uuid,
                      [names |-> names,
                       sessions |-> Append(old.sessions, <<join, playtime>>),
                       total |-> old.total + playtime])]

\* detail::clear_all_players.  order lists the names in the order in which
\* the unordered_map is iterated, which the language leaves unspecified.
RECURSIVE ClearLoop(_, _, _, _)
ClearLoop(order, st, leave_time, any) ==
    IF order = << >> THEN [pi |-> st.pi, data |-> st.data, any |-> any]
    ELSE IF Head(order) \in DOMAIN st.pi /\ HasValue(st.pi[Head(order)].uuid)
               /\ HasValue(st.pi[Head(order)].join_time)
         THEN ClearLoop(Tail(order),
                        CloseSession(st.pi, st.data, Head(order), leave_time),
                        leave_time, TRUE)
         ELSE ClearLoop(Tail(order), st, leave_time, any)
\* the context and the store once the loop has run
Cleared(ctx, r) ==
    [ctx |-> [ctx EXCEPT !.player_info = r.pi], data |-> r.data, any |-> r.any]
clear_all_players(ctx, data, leave_time, order) ==
    Cleared(ctx, ClearLoop(order, [pi |-> ctx.player_info, data |-> data],
                           leave_time, FALSE))

(***************************************************************************)
(* parse_line                                                              *)
(***************************************************************************)
Ret(ctx, data, valid, changed) ==
    [ctx |-> ctx, data |-> data, read_valid_line |-> valid,
     player_join_left |-> changed]

\* player_joined that keeps the join instant that is on file
player_joinedFirstKept(ctx, player_name, cur_time) ==
    LET pi == Touch(ctx.player_info, player_name)
    IN  IF HasValue(pi[player_name].join_time)
        THEN [ctx EXCEPT !.player_info = pi]
        ELSE [ctx EXCEPT !.player_info =
                 [pi EXCEPT ![player_name].join_time = Some(cur_time)]]

\* the lambda player_joined: the join instant is set, and overwritten when
\* one is on file; the two warnings change nothing
player_joined(ctx, player_name, cur_time) ==
    LET pi == Touch(ctx.player_info, player_name)
    IN  [ctx EXCEPT !.player_info = [pi EXCEPT ![player_name].join_time = Some(cur_time)]]

\* player_left without the test of join_time: a leave of a player who is not
\* online is recorded as a session of no length
player_leftUnchecked(ctx, data, player_name, cur_time) ==
    LET pi == Touch(ctx.player_info, player_name)
        uuid == Value(pi[player_name].uuid)
        old == Entry(data, uuid)
    IN  IF ~HasValue(pi[player_name].uuid)
        THEN [ctx |-> [ctx EXCEPT !.player_info = pi], data |-> data, ok |-> FALSE]
        ELSE [ctx |-> [ctx EXCEPT !.player_info = pi],
              data |-> Put(data, uuid,
                           [old EXCEPT !.sessions = Append(@, <<cur_time, 0>>)]),
              ok |-> TRUE]

\* the lambda player_left; ok is its return value
HasLeft(ctx, r) ==
    [ctx |-> [ctx EXCEPT !.player_info = r.pi], data |-> r.data, ok |-> TRUE]
player_left(ctx, data, player_name, cur_time) ==
    LET pi == Touch(ctx.player_info, player_name)
    IN  IF ~HasValue(pi[player_name].uuid) \/ ~HasValue(pi[player_name].join_time)
        THEN [ctx |-> [ctx EXCEPT !.player_info = pi], data |-> data, ok |-> FALSE]
        ELSE HasLeft(ctx, CloseSession(pi, data, player_name, cur_time))

\* both stop branches: flush everybody and set the flag
Stopped(r, players_changed) ==
    Ret([r.ctx EXCEPT !.server_stopped = TRUE], r.data, TRUE,
        players_changed \/ r.any)
\* the flag set with nobody flushed
StopServerUnflushed(ctx, data, cur_time, order, players_changed) ==
    Stopped([ctx |-> ctx, data |-> data, any |-> FALSE], players_changed)
StopServer(ctx, data, cur_time, order, players_changed) ==
    Stopped(clear_all_players(ctx, data, cur_time, order), players_changed)

\* WhileStopped with a join still marking the player online
WhileStoppedJoins(line, ctx, data, players_changed) ==
    IF Eof(line, 4) /\ Word(line, 2, "") = "joined"
    THEN Ret(player_joined(ctx, Word(line, 1, ""), ctx.date_tp + Value(line.ts)),
             data, TRUE, TRUE)
    ELSE Ret(ctx, data, TRUE, players_changed)

\* a stopped branch that takes every line of three words or more for the
\* start message
WhileStoppedAnyLineStarts(line, ctx, data, players_changed) ==
    Ret([ctx EXCEPT !.server_stopped = FALSE], data, TRUE, players_changed)

\* the branch taken while ctx.server_stopped is set: only the start message
\* is looked for, and every line of three words or more returns here
WhileStopped(line, ctx, data, players_changed) ==
    LET str1 == Word(line, 1, "")
        str2 == Word(line, 2, "")
        str3 == Word(line, 3, "")
    IN  IF str1 = "Starting" /\ str2 = "minecraft" /\ str3 = "server"
            /\ Eof(line, 5) /\ Word(line, 4, str1) = "version"
        THEN Ret([ctx EXCEPT !.server_stopped = FALSE], data, TRUE, players_changed)
        ELSE Ret(ctx, data, TRUE, players_changed)

\* "UUID of player <name> is <text>": lines 463-467, uuid is what parse_uuid
\* returned
\* SetUuid that looks the identity up with data[uuid], which inserts it
SetUuidInserted(ctx, data, name, uuid, players_changed) ==
    IF ~HasValue(uuid) THEN Ret(ctx, data, TRUE, players_changed)
    ELSE Ret([ctx EXCEPT !.player_info =
                 [Touch(ctx.player_info, name) EXCEPT ![name].uuid = uuid]],
             Put(data, Value(uuid), Entry(data, Value(uuid))), TRUE, players_changed)
SetUuid(ctx, data, name, uuid, players_changed) ==
    IF ~HasValue(uuid) THEN Ret(ctx, data, TRUE, players_changed)
    ELSE Ret([ctx EXCEPT !.player_info =
                 [Touch(ctx.player_info, name) EXCEPT ![name].uuid = uuid]],
             data, TRUE, players_changed)
UuidMessage(line, ctx, data, players_changed) ==
    LET str4 == Word(line, 4, "")
        str1 == Word(line, 5, "UUID")
        str2 == Word(line, 6, "of")
    IN  IF Eof(line, 6) /\ str1 = "is" /\ Len(CharsOf(str2)) = 36
        THEN SetUuid(ctx, data, str4,
                     IF str2 \in UuidTexts THEN ParsedUuid(str2)
                     ELSE parse_uuid(CharsOf(str2)),
                     players_changed)
        ELSE Ret(ctx, data, TRUE, players_changed)

\* lines 478-482: r is what player_left left and returned
LeftRet(r, players_changed) == Ret(r.ctx, r.data, TRUE, players_changed \/ r.ok)

\* the part of parse_line that follows the words "ss >> str1 >> str2";
\* ctx and data are those left by the clear_before step
Interpret(line, ctx, data, cur_time, order, players_changed) ==
    LET str1 == Word(line, 1, "")
        str2 == Word(line, 2, "")
        str3 == Word(line, 3, "")
        str4 == Word(line, 4, "")
    IN  IF Fail(line, 2) THEN Ret(ctx, data, TRUE, players_changed)
        ELSE IF Eof(line, 2) /\ str1 = "Stopping" /\ str2 = "server"
        THEN StopServer(ctx, data, cur_time, order, players_changed)
        ELSE IF Fail(line, 3) THEN Ret(ctx, data, TRUE, players_changed)
        ELSE IF ctx.server_stopped
        THEN WhileStopped(line, ctx, data, players_changed)
        ELSE IF Eof(line, 3) /\ str1 = "Stopping" /\ str2 = "the" /\ str3 = "server"
        THEN StopServer(ctx, data, cur_time, order, players_changed)
        ELSE IF Fail(line, 4) THEN Ret(ctx, data, TRUE, players_changed)
        ELSE IF str1 = "UUID" /\ str2 = "of" /\ str3 = "player"
        THEN UuidMessage(line, ctx, data, players_changed)
        ELSE IF Eof(line, 4) /\ str3 = "the" /\ str4 = "game"
        THEN IF str2 = "joined"
             THEN Ret(player_joined(ctx, str1, cur_time), data, TRUE, TRUE)
             ELSE IF str2 = "left"
             THEN LeftRet(player_left(ctx, data, str1, cur_time), players_changed)
             ELSE Ret(ctx, data, TRUE, players_changed)
        ELSE IF str2 = "(formerly" /\ str3 = "known" /\ str4 = "as"
        THEN LET t2 == Word(line, 6, Word(line, 5, str2))
                 t3 == Word(line, 7, str3)
                 t4 == Word(line, 8, str4)
             IN  IF Eof(line, 8) /\ t2 = "joined" /\ t3 = "the" /\ t4 = "game"
                 THEN Ret(player_joined(ctx, str1, cur_time), data, TRUE, TRUE)
                 ELSE Ret(ctx, data, TRUE, players_changed)
        ELSE Ret(ctx, data, TRUE, players_changed)

\* lines 363-365 and what follows them: c is what the clear_before step left
AfterClear(line, c, cur_time, order) ==
    Interpret(line, c.ctx, c.data, cur_time, order, c.any)
\* parse_line with the clear_before step between the timestamp and the tag
parse_lineFlushBeforeTag(line, ctx, data, clear_before, order) ==
    IF ~HasValue(line.ts) THEN Ret(ctx, data, FALSE, FALSE)
    ELSE IF ~line.tag
    THEN IF clear_before
         THEN Ret(clear_all_players(ctx, data, ctx.date_tp + Value(line.ts), order).ctx,
                  clear_all_players(ctx, data, ctx.date_tp + Value(line.ts), order).data,
                  FALSE, FALSE)
         ELSE Ret(ctx, data, FALSE, FALSE)
    ELSE AfterClear(line,
                    IF clear_before
                    THEN clear_all_players(ctx, data, ctx.date_tp + Value(line.ts), order)
                    ELSE [ctx |-> ctx, data |-> data, any |-> FALSE],
                    ctx.date_tp + Value(line.ts), order)
parse_line(line, ctx, data, clear_before, order) ==
    IF ~HasValue(line.ts) \/ ~line.tag THEN Ret(ctx, data, FALSE, FALSE)
    ELSE AfterClear(line,
                    IF clear_before
                    THEN clear_all_players(ctx, data, ctx.date_tp + Value(line.ts), order)
                    ELSE [ctx |-> ctx, data |-> data, any |-> FALSE],
                    ctx.date_tp + Value(line.ts), order)

\* the text between two '\n', or after the last one, when it is empty
EmptyLine == [ts |-> None, tag |-> FALSE, toks |-> << >>, sp |-> FALSE]

\* parse_lines on a chunk that holds the newline terminated lines `lines`:
\* one parse_line per line, and one more for the empty text that follows
\* the last '\n'
RECURSIVE ParseLinesLoop(_, _, _, _, _)
\* r is what parse_line returned for the text after the last '\n'
LinesDone(r, changed) ==
    [ctx |-> r.ctx, data |-> r.data, changed |-> changed \/ r.player_join_left]
\* players_changed assigned, not set, from what parse_line returned
LinesNextAssigned(rest, r, order, changed) ==
    ParseLinesLoop(rest, r.ctx, r.data, order, r.player_join_left)
\* r is what parse_line returned for a line; rest are the lines after it
LinesNext(rest, r, order, changed) ==
    ParseLinesLoop(rest, r.ctx, r.data, order, changed \/ r.player_join_left)
ParseLinesLoop(lines, ctx, data, order, changed) ==
    IF lines = << >>
    THEN LinesDone(parse_line(EmptyLine, ctx, data, FALSE, order), changed)
    ELSE LinesNext(Tail(lines), parse_line(Head(lines), ctx, data, FALSE, order),
                   order, changed)
\* parse_lines that stops at the first '\n'
parse_linesFirstLine(lines, ctx, data, order) ==
    ParseLinesLoop(SubSeq(lines, 1, 1), ctx, data, order, FALSE)
parse_lines(lines, ctx, data, order) ==
    ParseLinesLoop(lines, ctx, data, order, FALSE)

(***************************************************************************)
(* Files.  An enumerated path (an element of read_ctx.paths) is a record:  *)
(* name is the file name, corrupt tells whether gzip decompression of the  *)
(* file fails, date_ok tells whether from_stream reads a date from the     *)
(* name, mtime is the last write time (of latest.log only).                *)
(***************************************************************************)
Dated(day, seq, gz) == [kind |-> "dated", day |-> day, seq |-> seq, gz |-> gz]
LatestLog == [kind |-> "latest", day |-> 0, seq |-> 0, gz |-> FALSE]
Path(name, corrupt, date_ok, mtime) ==
    [name |-> name, corrupt |-> corrupt, date_ok |-> date_ok, mtime |-> mtime]
Plain(day, seq) == Path(Dated(day, seq, FALSE), FALSE, TRUE, 0)
Noon(day) == day * SecondsPerDay + 12 * SecondsPerHour

\* floor<days> of a local time
FloorDays(t) == (t \div SecondsPerDay) * SecondsPerDay
\* file_modification_date: midnight, in the zone tz (seconds east of UTC),
\* of the day of the last write time
file_modification_date(mtime, tz) == FloorDays(mtime + tz) - tz
\* the date read from a dated file name, taken as a UTC time
FileNameDate(name) == name.day * SecondsPerDay

\* log_filename_no_ext: the name with ".log" or ".log.gz" removed; the
\* second component of the pair tells which
log_filename_no_ext(name, is_gz) ==
    [kind |-> name.kind, day |-> name.day, seq |-> name.seq,
     cut |-> IF is_gz THEN 7 ELSE 4]

\* OpenNext with the run ended by a .gz file that does not decompress
RECURSIVE OpenNextStopsAtCorrupt(_, _, _, _, _, _)
OpenNextStopsAtCorrupt(ps, ind, date_tp, empties, tz, skip_latest_log) ==
    IF ind = Len(ps) THEN [found |-> FALSE, path_ind |-> ind, date_tp |-> date_tp]
    ELSE LET p == ps[ind + 1]
             is_latest == ~skip_latest_log /\ p.name.kind = "latest"
             date == IF is_latest THEN file_modification_date(p.mtime, tz)
                     ELSE FileNameDate(p.name)
         IN  IF ~is_latest /\ ~p.date_ok
             THEN OpenNextStopsAtCorrupt(ps, ind + 1, date_tp, empties, tz,
                                         skip_latest_log)
             ELSE IF p.name.gz /\ p.corrupt
             THEN [found |-> FALSE, path_ind |-> Len(ps), date_tp |-> date]
             ELSE IF (ind + 1) \in empties
             THEN OpenNextStopsAtCorrupt(ps, ind + 1, date, empties, tz,
                                         skip_latest_log)
             ELSE [found |-> TRUE, path_ind |-> ind + 1, date_tp |-> date]

(***************************************************************************)
(* detail::get_next_line, for a call that finds the current stream         *)
(* missing or exhausted: the paths from index ind on (ind counts the       *)
(* paths consumed) are tried in turn.  empties is the set of indices of    *)
(* the files that hold no line; found tells whether a line was returned.   *)
(***************************************************************************)
RECURSIVE OpenNext(_, _, _, _, _, _)
OpenNext(ps, ind, date_tp, empties, tz, skip_latest_log) ==
    IF ind = Len(ps) THEN [found |-> FALSE, path_ind |-> ind, date_tp |-> date_tp]
    ELSE LET p == ps[ind + 1]
             is_latest == ~skip_latest_log /\ p.name.kind = "latest"
             date == IF is_latest THEN file_modification_date(p.mtime, tz)
                     ELSE FileNameDate(p.name)
         IN  IF ~is_latest /\ ~p.date_ok
             THEN OpenNext(ps, ind + 1, date_tp, empties, tz, skip_latest_log)
             ELSE IF p.name.gz /\ p.corrupt
             THEN OpenNext(ps, ind + 1, date, empties, tz, skip_latest_log)
             ELSE IF (ind + 1) \in empties
             THEN OpenNext(ps, ind + 1, date, empties, tz, skip_latest_log)
             ELSE [found |-> TRUE, path_ind |-> ind + 1, date_tp |-> date]

(***************************************************************************)
(* The state.                                                              *)
(***************************************************************************)
VARIABLES
    pc,            \* where the program is: "parse_logs", "returned", ...
    variant,       \* the template arguments of parse_logs and its time zone
    paths,         \* read_ctx.paths, as enumerated and sorted
    read_ctx,      \* path_ind, line, date_tp and whether fin can be read
    parse_data,    \* info (parse_logs), parse_data (main)
    parse_ctx,     \* ctx (parse_logs), parse_ctx (main)
    clear_before,  \* parse_logs: clear_before
    last_tp,       \* parse_logs: last_tp
    read_files,    \* main: read_files
    cb_calls,      \* history: the paths read_file_cb was called with
    nread,         \* history: the number of lines read from the files
    last,          \* history: the last call of parse_line by parse_logs
    persistent,    \* main: persistent_data_ctx
    prev_size,     \* main: prev_size
    last_player_count, \* main: last_player_count
    latest,        \* the file latest.log: whether it exists, lines, mtime
    events,        \* the results watcher.poll() has yet to return
    nops,          \* history: the number of changes made to latest.log
    fed,           \* history: how often each line of latest.log was parsed
    handled,       \* history: what the last event handler saw and did
    chunked,       \* a second parser state, fed through parse_lines
    pending,       \* the lines read that chunked has yet to be fed
    opened,        \* history: the files get_next_line gave a stream
    clean,         \* parse_logs run on the directory less its corrupt files
    graph,         \* what the last call of create_graph was given and made
    watch,         \* file_watcher_ctx, and the notifications the OS holds
    polled,        \* history: the last two notifications polled, the results
    listing,       \* the log directory, and read_ctx.paths by file name
    threads        \* main.cpp: the mutexes, the slash commands, the clock

parseVars == << pc, variant, paths, read_ctx, parse_data, parse_ctx, clear_before,
                last_tp, read_files, cb_calls, nread, last >>
tailVars == << persistent, prev_size, last_player_count, latest, events, nops,
               fed, handled >>
chunkVars == << chunked, pending >>
skipVars == << opened, clean >>
watchVars == << watch, polled >>
observers == << chunkVars, skipVars, graph, watchVars, listing, threads >>
vars == << parseVars, tailVars, chunkVars, skipVars, graph, watchVars, listing, threads >>

\* playtime.cpp: parse_logs<false, false>("logs", UTC);
\* main.cpp: parse_logs<true, true>(log_path, logs_timezone, callback)
Playtime == [skip_latest_log |-> FALSE, save_ctx |-> FALSE, tz |-> 0, main |-> FALSE]
Main(tz) == [skip_latest_log |-> TRUE, save_ctx |-> TRUE, tz |-> tz, main |-> TRUE]

Names == {"a", "b"}
\* the orders in which an unordered_map of these names may be iterated
Orders == {<<"a", "b">>, <<"b", "a">>}
\* the values system_clock::now() takes when the backfill ends
Nows == {Noon(3)}

NoCall == [called |-> FALSE]
\* the directory is not modelled: paths is what was enumerated
NoListing == [dir |-> {}, paths |-> << >>]
NoGraph == [made |-> FALSE]

\* main.cpp: the slash commands that run while main follows latest.log
MaxCommands == 2
\* the clock advances MaxTicks times, by half the rate limit each time
MaxTicks == 1
\* the changes made to latest.log while the commands run
MaxThreadOps == 2
\* line 288: std::chrono::seconds(60)
RateLimit == 60
Commands == 1..MaxCommands
\* system_clock::now() when the bot starts
BootTime == Noon(3)
\* who holds parse_data_ctx_mutex
Owner(thread, id) == [thread |-> thread, id |-> id]
Unowned == Owner("none", 0)
ByMain == Owner("main", 0)
ByCommand(c) == Owner("command", c)
\* the mutex left unlocked until the loop
MutexAtStartFree == Unowned
\* line 270: parse_data_ctx_mutex.lock() before the bot is started
MutexAtStart == ByMain
\* a handler of on_slashcommand that has not been called
IdleCommand == [pc |-> "idle", kind |-> "none", now |-> 0, passed |-> FALSE]
\* the locals of a handler of main that holds the mutex
NoWork == [rest |-> << >>, changed |-> FALSE, do_update |-> FALSE]
NoThreads ==
    [mutex |-> MutexAtStart, step |-> "none", work |-> NoWork,
     cmd |-> [c \in Commands |-> IdleCommand],
     graph_command_next_tp |-> 0, clock |-> BootTime, ticks |-> 0,
     waited |-> {}, early |-> {}]
\* no watcher is modelled
NoWatch == [backend |-> "none"]
\* no poll has been made; state is none of the states poll returns
NoPoll == [done |-> FALSE, state |-> 3]
\* the state of parse_logs before its loop: info, ctx, clear_before, last_tp
\* and read_ctx; diverged tells that the two runs did not read the same lines
NoClean ==
    [ctx |-> InitCtx, data |-> EmptyData, clear_before |-> FALSE, last_tp |-> 0,
     path_ind |-> 0, date_tp |-> 0, line |-> 0, diverged |-> FALSE]
Call(line, cb, ctx, data, order, r) ==
    [called |-> TRUE, line |-> line, clear_before |-> cb, ctx |-> ctx,
     data |-> data, order |-> order, read_valid_line |-> r.read_valid_line,
     player_join_left |-> r.player_join_left]

\* latest.log as a file: lines are its newline terminated lines
File(exists, lines, mtime) == [exists |-> exists, lines |-> lines, mtime |-> mtime]
NoLatest == File(FALSE, << >>, 0)
NoEvent == [kind |-> "none"]

\* the locals of parse_logs and of main before the loop of parse_logs
Constructed(variants, latestChoices) ==
    /\ variant \in variants
    /\ read_ctx = [path_ind |-> 0, open |-> FALSE, line |-> 0, date_tp |-> 0]
    /\ parse_data = EmptyData
    /\ parse_ctx = InitCtx
    /\ clear_before = FALSE
    /\ last_tp = 0
    /\ read_files = << >>
    /\ cb_calls = << >>
    /\ nread = 0
    /\ last = NoCall
    /\ persistent = [ctx |-> InitCtx, data |-> EmptyData]
    /\ prev_size = 0
    /\ last_player_count = 0
    /\ latest \in latestChoices
    /\ events = << >>
    /\ nops = 0
    /\ fed = << >>
    /\ handled = NoEvent
InitWith(pathChoices, variants, latestChoices) ==
    /\ pc = "parse_logs"
    /\ Constructed(variants, latestChoices)
    /\ paths \in pathChoices
    /\ variant.skip_latest_log => \A i \in DOMAIN paths : paths[i].name.kind # "latest"

(***************************************************************************)
(* parse_logs: one iteration of its while loop per step.                   *)
(***************************************************************************)
\* read_file_cb(p): main appends log_filename_no_ext(p) to read_files, the
\* default callback of playtime.cpp does nothing
Callback(p) ==
    /\ cb_calls' = Append(cb_calls, p)
    /\ read_files' = IF variant.main
                     THEN Append(read_files, log_filename_no_ext(p.name, p.name.gz))
                     ELSE read_files

\* lines 643-647: r is what parse_line returned for the arguments given
LoopParsed(s, file_is_new, rc, order, cb, ctx, r) ==
    /\ parse_ctx' = r.ctx
    /\ parse_data' = r.data
    /\ clear_before' = IF r.read_valid_line THEN FALSE ELSE cb
    /\ last' = Call(s, cb, ctx, parse_data, order, r)
    /\ IF file_is_new /\ rc.path_ind > 1
       THEN Callback(paths[rc.path_ind - 1])
       ELSE UNCHANGED << read_files, cb_calls >>
\* lines 632-648: the body of the loop for the line s that get_next_line
\* returned, rc being read_ctx as get_next_line left it
LoopBody(s, file_is_new, rc, order) ==
    LET ctx1 == IF file_is_new
                THEN [parse_ctx EXCEPT !.cur_filename = paths[rc.path_ind].name,
                                       !.date_tp = rc.date_tp]
                ELSE parse_ctx
        cb == clear_before \/ (file_is_new /\ ctx1.date_tp = last_tp)
        ctx2 == [ctx1 EXCEPT !.line = rc.line]
    IN  /\ read_ctx' = rc
        /\ last_tp' = IF file_is_new THEN ctx1.date_tp ELSE last_tp
        /\ nread' = nread + 1
        /\ LoopParsed(s, file_is_new, rc, order, cb, ctx2,
                      parse_line(s, ctx2, parse_data, cb, order))

\* get_next_line returns the next line of the file that is open
ParseLogsLine(s, order) ==
    /\ pc = "parse_logs"
    /\ read_ctx.open
    /\ nread < MaxLines
    /\ LoopBody(s, FALSE, [read_ctx EXCEPT !.line = @ + 1], order)
    /\ UNCHANGED << pc, variant, paths >>
    /\ UNCHANGED tailVars

\* get_next_line finds no stream, or the stream at its end, and returns
\* the first line of the next file that holds one
ParseLogsNewFile(s, empties, order) ==
    /\ pc = "parse_logs"
    /\ nread < MaxLines
    /\ LET o == OpenNext(paths, read_ctx.path_ind, read_ctx.date_tp, empties,
                         variant.tz, variant.skip_latest_log)
       IN  /\ o.found
           /\ LoopBody(s, TRUE,
                       [path_ind |-> o.path_ind, open |-> TRUE, line |-> 1,
                        date_tp |-> o.date_tp], order)
    /\ UNCHANGED << pc, variant, paths >>
    /\ UNCHANGED tailVars

\* lines 538-539: nothing was enumerated
ParseLogsNoPaths ==
    /\ pc = "parse_logs"
    /\ paths = << >>
    /\ pc' = "returned"
    /\ UNCHANGED << variant, paths, read_ctx, parse_data, parse_ctx, clear_before,
                    last_tp, read_files, cb_calls, nread, last >>
    /\ UNCHANGED tailVars

\* the players marked offline at the end, their sessions not recorded
FlushedContextOnly(c) == parse_ctx' = c.ctx /\ parse_data' = parse_data
\* line 659: c is what clear_all_players left
Flushed(c) == parse_ctx' = c.ctx /\ parse_data' = c.data
\* get_next_line returns the empty string: every file is exhausted.  The
\* loop ends, and without save_ctx the players still online leave now.
ParseLogsEnd(empties, now, order) ==
    /\ pc = "parse_logs"
    /\ paths # << >>
    /\ LET o == OpenNext(paths, read_ctx.path_ind, read_ctx.date_tp, empties,
                         variant.tz, variant.skip_latest_log)
       IN  /\ ~o.found
           /\ read_ctx' = [path_ind |-> o.path_ind, open |-> FALSE, line |-> 0,
                           date_tp |-> o.date_tp]
           /\ Callback(paths[o.path_ind])
           /\ IF variant.save_ctx
              THEN UNCHANGED << parse_ctx, parse_data >>
              ELSE Flushed(clear_all_players(parse_ctx, parse_data, now, order))
    /\ pc' = "returned"
    /\ last' = NoCall
    /\ UNCHANGED << variant, paths, clear_before, last_tp, nread >>
    /\ UNCHANGED tailVars

(***************************************************************************)
(* main.cpp: the initial parse and the loop that follows latest.log.       *)
(***************************************************************************)
get_num_players(ctx) ==
    Cardinality({ n \in DOMAIN ctx.player_info :
                    HasValue(ctx.player_info[n].join_time) })
\* update_player_count: the value it leaves in last_player_count
update_player_count(ctx) == get_num_players(ctx)
\* the lambda update_date_tp, called with whether latest.log exists
update_date_tp(ctx, tz) ==
    IF latest.exists
    THEN [ctx EXCEPT !.date_tp = file_modification_date(latest.mtime, tz)]
    ELSE ctx
\* std::filesystem::file_size, or 0 when latest.log does not exist
FileSize == IF latest.exists THEN Len(latest.lines) ELSE 0

\* history: the lines from + 1 .. to of latest.log are given to parse_lines
Feed(counts, from, to) ==
    [i \in 1..(IF to > Len(counts) THEN to ELSE Len(counts)) |->
        (IF i <= Len(counts) THEN counts[i] ELSE 0)
            + (IF from < i /\ i <= to THEN 1 ELSE 0)]
\* history: what a handler saw when it ran; baseline is the day that
\* update_date_tp last left in parse_ctx
Seen(kind) ==
    [kind |-> kind, size |-> FileSize, prev_size |-> prev_size,
     S0 |-> persistent, before |-> [ctx |-> parse_ctx, data |-> parse_data],
     file |-> latest,
     baseline |-> IF kind \in { "startup", "create", "create_moved" }
                  THEN update_date_tp(parse_ctx, variant.tz).date_tp
                  ELSE handled.baseline]

\* r is what parse_lines left and returned; update_player_count is called
\* when it returned true or do_update is set
Parsed(r, do_update) ==
    /\ parse_ctx' = r.ctx
    /\ parse_data' = r.data
    /\ last_player_count' = IF r.changed \/ do_update
                            THEN update_player_count(r.ctx)
                            ELSE last_player_count

\* lines 363-372: the result of parse_logs is committed, the watcher starts
MainCommit ==
    /\ pc = "returned"
    /\ variant.main
    /\ pc' = "startup"
    /\ persistent' = [ctx |-> parse_ctx, data |-> parse_data]
    /\ UNCHANGED << variant, paths, read_ctx, parse_data, parse_ctx, clear_before,
                    last_tp, read_files, cb_calls, nread, last >>
    /\ UNCHANGED << prev_size, last_player_count, latest, events, nops, fed, handled >>

\* lines 379-402: latest.log is parsed as it is found; prev_size stays 0
MainStartup(order) ==
    /\ pc = "startup"
    /\ pc' = "poll"
    /\ IF FileSize > 0
       THEN Parsed(parse_lines(latest.lines, update_date_tp(parse_ctx, variant.tz),
                               parse_data, order), TRUE)
       ELSE /\ parse_ctx' = update_date_tp(parse_ctx, variant.tz)
            /\ parse_data' = parse_data
            /\ last_player_count' = update_player_count(parse_ctx)
    /\ fed' = Feed(fed, 0, FileSize)
    /\ handled' = Seen("startup")
    /\ UNCHANGED << variant, paths, read_ctx, clear_before, last_tp, read_files,
                    cb_calls, nread, last >>
    /\ UNCHANGED << persistent, prev_size, latest, events, nops >>

\* watcher.poll() returns the oldest result that is waiting
Polled(kind) ==
    /\ pc = "poll"
    /\ events # << >>
    /\ Head(events).kind = kind
    /\ events' = Tail(events)

\* lines 415-419
HandleCreate ==
    /\ Polled("create")
    /\ parse_ctx' = update_date_tp(parse_ctx, variant.tz)
    /\ prev_size' = 0
    /\ handled' = Seen("create")
    /\ UNCHANGED << pc, variant, paths, read_ctx, parse_data, clear_before, last_tp,
                    read_files, cb_calls, nread, last >>
    /\ UNCHANGED << persistent, last_player_count, latest, nops, fed >>

\* lines 421-443: the new day is written to parse_ctx and then lost when
\* the saved pair is copied over it
HandleCreateMoved(order) ==
    /\ Polled("create_moved")
    /\ IF FileSize > 0
       THEN Parsed(parse_lines(latest.lines, persistent.ctx, persistent.data, order),
                   TRUE)
       ELSE /\ parse_ctx' = update_date_tp(parse_ctx, variant.tz)
            /\ UNCHANGED << parse_data, last_player_count >>
    /\ prev_size' = FileSize
    /\ fed' = Feed(fed, 0, FileSize)
    /\ handled' = Seen("create_moved")
    /\ UNCHANGED << pc, variant, paths, read_ctx, clear_before, last_tp,
                    read_files, cb_calls, nread, last >>
    /\ UNCHANGED << persistent, latest, nops >>

\* ModifyBase without the copy of persistent_data_ctx
ModifyBaseKept(shrunk) == [ctx |-> parse_ctx, data |-> parse_data]

\* lines 451-456: the pair the appended range is parsed into
ModifyBase(shrunk) ==
    IF shrunk THEN persistent ELSE [ctx |-> parse_ctx, data |-> parse_data]

\* lines 445-472
HandleModify(order) ==
    /\ Polled("modify")
    /\ LET shrunk == FileSize < prev_size
           from == IF shrunk THEN 0 ELSE prev_size
           base == ModifyBase(shrunk)
       IN  IF FileSize > 0 /\ FileSize > from
           THEN /\ Parsed(parse_lines(SubSeq(latest.lines, from + 1, FileSize),
                                      base.ctx, base.data, order), shrunk)
                /\ fed' = Feed(fed, from, FileSize)
           ELSE /\ parse_ctx' = base.ctx
                /\ parse_data' = base.data
                /\ UNCHANGED << last_player_count, fed >>
    /\ prev_size' = FileSize
    /\ handled' = Seen("modify")
    /\ UNCHANGED << pc, variant, paths, read_ctx, clear_before, last_tp,
                    read_files, cb_calls, nread, last >>
    /\ UNCHANGED << persistent, latest, nops >>

\* HandleMovedTo without the copy to persistent_data_ctx
HandleMovedToUncommitted ==
    /\ Polled("moved_to")
    /\ IF Head(events).name.gz
       THEN UNCHANGED << read_files, persistent >>
       ELSE /\ read_files' = Append(read_files,
                                    log_filename_no_ext(Head(events).name, FALSE))
            /\ UNCHANGED persistent
    /\ prev_size' = 0
    /\ handled' = Seen("moved_to")
    /\ UNCHANGED << pc, variant, paths, read_ctx, parse_data, parse_ctx,
                    clear_before, last_tp, cb_calls, nread, last >>
    /\ UNCHANGED << last_player_count, latest, nops, fed >>

\* HandleMovedTo with prev_size = 0 in the branch of the .log names only
HandleMovedToCursorKept ==
    /\ Polled("moved_to")
    /\ IF Head(events).name.gz
       THEN UNCHANGED << read_files, persistent, prev_size >>
       ELSE /\ read_files' = Append(read_files,
                                    log_filename_no_ext(Head(events).name, FALSE))
            /\ persistent' = [ctx |-> parse_ctx, data |-> parse_data]
            /\ prev_size' = 0
    /\ handled' = Seen("moved_to")
    /\ UNCHANGED << pc, variant, paths, read_ctx, parse_data, parse_ctx,
                    clear_before, last_tp, cb_calls, nread, last >>
    /\ UNCHANGED << last_player_count, latest, nops, fed >>

\* lines 474-490: moved_to.ends_with(".log")
HandleMovedTo ==
    /\ Polled("moved_to")
    /\ IF Head(events).name.gz
       THEN UNCHANGED << read_files, persistent >>
       ELSE /\ read_files' = Append(read_files,
                                    log_filename_no_ext(Head(events).name, FALSE))
            /\ persistent' = [ctx |-> parse_ctx, data |-> parse_data]
    /\ prev_size' = 0
    /\ handled' = Seen("moved_to")
    /\ UNCHANGED << pc, variant, paths, read_ctx, parse_data, parse_ctx,
                    clear_before, last_tp, cb_calls, nread, last >>
    /\ UNCHANGED << last_player_count, latest, nops, fed >>

(***************************************************************************)
(* playtime_graph.h: create_graph(parse_data, parse_ctx, color), up to the *)
(* call of detail::create_graph.  log_info is a sequence of records, first *)
(* the uuid and second the entry of the store.                             *)
(***************************************************************************)
\* the keys of the std::map in the order in which it is iterated
RECURSIVE SortUuids(_)
SortUuids(S) ==
    IF S = {} THEN << >>
    ELSE LET m == CHOOSE u \in S : \A v \in S \ {u} : UuidLess(u, v)
         IN  << m >> \o SortUuids(S \ {m})
\* line 312: log_info(parse_data.begin(), parse_data.end())
CopyOf(data, keys) == [i \in DOMAIN keys |-> [first |-> keys[i], second |-> data[keys[i]]]]
\* std::ranges::lower_bound(log_info, uuid, {}, first): the index of the
\* first element whose key is not less than uuid, Len(log_info) + 1 for end()
lower_bound(log_info, uuid) ==
    IF \E i \in DOMAIN log_info : ~UuidLess(log_info[i].first, uuid)
    THEN CHOOSE i \in DOMAIN log_info :
            /\ ~UuidLess(log_info[i].first, uuid)
            /\ \A j \in 1..(i - 1) : UuidLess(log_info[j].first, uuid)
    ELSE Len(log_info) + 1
\* lines 325-331: the session in progress is added to the entry e
WithOpenSession(e, cur_name, join, now) ==
    [names |-> IF e.names = << >> \/ e.names[Len(e.names)] # cur_name
               THEN Append(e.names, cur_name) ELSE e.names,
     sessions |-> Append(e.sessions, << join, now - join >>),
     total |-> e.total + (now - join)]
\* lines 315-332: the loop over parse_ctx.player_info, in the order order
RECURSIVE OnlineLoop(_, _, _, _)
OnlineStep(rest, pi, log_info, now, cur_name, it) ==
    IF it > Len(log_info) THEN [thrown |-> TRUE, log_info |-> log_info]
    ELSE OnlineLoop(rest, pi,
                    [log_info EXCEPT ![it].second =
                        WithOpenSession(@, cur_name, Value(pi[cur_name].join_time), now)],
                    now)
OnlineLoop(order, pi, log_info, now) ==
    IF order = << >> THEN [thrown |-> FALSE, log_info |-> log_info]
    ELSE IF Head(order) \in DOMAIN pi /\ HasValue(pi[Head(order)].uuid)
               /\ HasValue(pi[Head(order)].join_time)
         THEN OnlineStep(Tail(order), pi, log_info, now, Head(order),
                         lower_bound(log_info, Value(pi[Head(order)].uuid)))
         ELSE OnlineLoop(Tail(order), pi, log_info, now)
\* line 333: the orders std::ranges::sort(log_info, greater, total) may leave
SortedByTotal(log_info) ==
    { [i \in DOMAIN log_info |-> log_info[p[i]]] :
        p \in { q \in [DOMAIN log_info -> DOMAIN log_info] :
                  /\ \A i, j \in DOMAIN log_info : q[i] = q[j] => i = j
                  /\ \A i \in 1..(Len(log_info) - 1) :
                        log_info[q[i]].second.total >= log_info[q[i + 1]].second.total } }
create_graph(data, ctx, now, order) ==
    OnlineLoop(order, ctx.player_info, CopyOf(data, SortUuids(DOMAIN data)), now)

\* main.cpp lines 310-321: the "graph" command runs create_graph under
\* parse_data_ctx_mutex, which main has released (line 402).  r is what the
\* loop of create_graph left, sorted the value given to detail::create_graph.
Graphed(r, sorted, now) ==
    graph' = [made |-> TRUE, thrown |-> r.thrown,
              log_info |-> IF r.thrown THEN << >> ELSE sorted,
              now |-> now, data |-> parse_data, ctx |-> parse_ctx]
CreateGraph(now, order) ==
    /\ pc = "poll"
    /\ \E r \in { create_graph(parse_data, parse_ctx, now, order) } :
          \E sorted \in SortedByTotal(r.log_info) : Graphed(r, sorted, now)
    /\ UNCHANGED parseVars
    /\ UNCHANGED tailVars
    /\ UNCHANGED << chunkVars, skipVars, watchVars, listing, threads >>

(***************************************************************************)
(* file_watcher.c (Linux, inotify) and file_watcher.cpp (Windows,          *)
(* ReadDirectoryChangesW).  A file name is a record: chars is its spelling *)
(* and file is what main makes of it (gz tells that it does not end in     *)
(* ".log").                                                                *)
(***************************************************************************)
Event(kind, name) == [kind |-> kind, name |-> name]
Named(file, chars) == [file |-> file, chars |-> chars]
WatchedChars == << "l", "a", "t", "e", "s", "t", ".", "l", "o", "g" >>
WatchedName == Named(LatestLog, WatchedChars)
\* latest.log.1: the watched name is a proper prefix of it
LongerName ==
    Named([kind |-> "other", day |-> 0, seq |-> 0, gz |-> TRUE],
          << "l", "a", "t", "e", "s", "t", ".", "l", "o", "g", ".", "1" >>)
\* 2024-01-01-2.log
RotatedName ==
    Named(Dated(1, 2, FALSE),
          << "2", "0", "2", "4", "-", "0", "1", "-", "0", "1", "-", "2",
             ".", "l", "o", "g" >>)
\* an event that carries no name (IN_Q_OVERFLOW)
NoName == Named(NoFile, << >>)

\* struct inotify_event: len counts the name and the null bytes after it
inotify_event(mask, cookie, name) ==
    [mask |-> mask, cookie |-> cookie, name |-> name,
     len |-> IF name.chars = << >> THEN 0 ELSE Len(name.chars) + 1]
\* FILE_NOTIFY_INFORMATION
FILE_NOTIFY_INFORMATION(Action, name) == [Action |-> Action, name |-> name]

\* struct file_watcher_result
Result(state, event_create, event_create_moved, event_modify, moved_to) ==
    [state |-> state, event_create |-> event_create,
     event_create_moved |-> event_create_moved, event_modify |-> event_modify,
     moved_to |-> moved_to]
NoData == Result(0, FALSE, FALSE, FALSE, None)
ReadMore == Result(2, FALSE, FALSE, FALSE, None)

\* the character strncmp reads at position i of a null terminated string
CharAt(str, i) == IF i <= Len(str) THEN str[i] ELSE "NUL"
\* strncmp(a, b, n) == 0
strncmp_equal(a, b, n) ==
    \A i \in 1..n :
        /\ CharAt(a, i) = CharAt(b, i)
        \/ \E j \in 1..(i - 1) : CharAt(a, j) = "NUL" /\ CharAt(b, j) = "NUL"

\* file_watcher_init: the fields of file_watcher_ctx that poll reads and
\* writes, cookie on Linux and moved on Windows
file_watcher_init(backend, filename) ==
    [backend |-> backend, has_value |-> TRUE, filename |-> filename,
     filename_size |-> Len(filename), cookie |-> 0, moved |-> FALSE,
     inbox |-> << >>]

Polled_(ctx, res) == [ctx |-> ctx, res |-> res]
\* LinuxPoll without "ctx->cookie = event->cookie" (line 168)
LinuxPollCookieNotKept(ctx, event) ==
    IF "IN_MOVED_TO" \in event.mask /\ ctx.cookie # 0 /\ ctx.cookie = event.cookie
    THEN Polled_([ctx EXCEPT !.cookie = 0],
                 Result(1, FALSE, FALSE, FALSE, Some(event.name)))
    ELSE IF ~(/\ event.len > ctx.filename_size
              /\ strncmp_equal(event.name.chars, ctx.filename, ctx.filename_size))
    THEN Polled_(ctx, ReadMore)
    ELSE IF "IN_MOVED_FROM" \in event.mask
    THEN Polled_(ctx, ReadMore)
    ELSE IF event.mask \cap {"IN_CREATE", "IN_MOVED_TO", "IN_MODIFY"} = {}
    THEN Polled_([ctx EXCEPT !.cookie = 0], ReadMore)
    ELSE Polled_([ctx EXCEPT !.cookie = 0],
                 Result(1, "IN_CREATE" \in event.mask, "IN_MOVED_TO" \in event.mask,
                        "IN_MODIFY" \in event.mask, None))

\* file_watcher.c lines 139-186, for the event get_next_event returned
LinuxPoll(ctx, event) ==
    IF "IN_MOVED_TO" \in event.mask /\ ctx.cookie # 0 /\ ctx.cookie = event.cookie
    THEN Polled_([ctx EXCEPT !.cookie = 0],
                 Result(1, FALSE, FALSE, FALSE, Some(event.name)))
    ELSE IF ~(/\ event.len > ctx.filename_size
              /\ strncmp_equal(event.name.chars, ctx.filename, ctx.filename_size))
    THEN Polled_(ctx, ReadMore)
    ELSE IF "IN_MOVED_FROM" \in event.mask
    THEN Polled_([ctx EXCEPT !.cookie = event.cookie], ReadMore)
    ELSE IF event.mask \cap {"IN_CREATE", "IN_MOVED_TO", "IN_MODIFY"} = {}
    THEN Polled_([ctx EXCEPT !.cookie = 0], ReadMore)
    ELSE Polled_([ctx EXCEPT !.cookie = 0],
                 Result(1, "IN_CREATE" \in event.mask, "IN_MOVED_TO" \in event.mask,
                        "IN_MODIFY" \in event.mask, None))

\* file_watcher.cpp lines 63-121: file_watcher_read, for the entry info
WindowsRead(ctx, info) ==
    IF info.Action = "FILE_ACTION_RENAMED_NEW_NAME" /\ ctx.moved
    THEN Polled_(ctx, Result(1, FALSE, FALSE, FALSE, Some(info.name)))
    ELSE IF ctx.filename # info.name.chars
    THEN Polled_([ctx EXCEPT !.moved = FALSE], ReadMore)
    ELSE IF info.Action = "FILE_ACTION_RENAMED_OLD_NAME"
    THEN Polled_([ctx EXCEPT !.moved = TRUE], ReadMore)
    ELSE IF info.Action \notin {"FILE_ACTION_ADDED", "FILE_ACTION_RENAMED_NEW_NAME",
                                "FILE_ACTION_MODIFIED"}
    THEN Polled_([ctx EXCEPT !.moved = FALSE], ReadMore)
    ELSE Polled_([ctx EXCEPT !.moved = FALSE],
                 Result(1, info.Action = "FILE_ACTION_ADDED",
                        info.Action = "FILE_ACTION_RENAMED_NEW_NAME",
                        info.Action = "FILE_ACTION_MODIFIED", None))

\* file_watcher_poll when the OS has a notification to hand over
file_watcher_poll(ctx, note) ==
    IF ctx.backend = "linux" THEN LinuxPoll(ctx, note) ELSE WindowsRead(ctx, note)

\* main.cpp lines 413 and 492-493: where the loop goes after poll returned
\* state (0 no_data, 1 data_read, 2 read_more); the handlers of a data_read
\* result run before the next poll
\* AfterPoll with the sleep taken whenever no event was returned
AfterPollSleepsUnlessData(state) == IF state = 1 THEN "poll" ELSE "sleep"
AfterPoll(state) == IF state = 0 THEN "sleep" ELSE "poll"

\* the result of a poll as the handlers of main take it
ResultEvent(res) ==
    IF HasValue(res.moved_to) THEN Event("moved_to", Value(res.moved_to).file)
    ELSE IF res.event_create THEN Event("create", NoFile)
    ELSE IF res.event_create_moved THEN Event("create_moved", NoFile)
    ELSE Event("modify", NoFile)

\* history: the notification polled last and the one before it, and the
\* state poll returned last
Shift(note, before, r) ==
    [done |-> TRUE, state |-> r.res.state, note |-> note, before |-> before,
     after |-> r.ctx, res |-> r.res,
     prev |-> IF polled.done
              THEN [done |-> TRUE, note |-> polled.note, res |-> polled.res]
              ELSE [done |-> FALSE]]

\* main.cpp lines 406-413: watcher.poll() finds a notification
PollTook(ctx, note, r) ==
    /\ watch' = [r.ctx EXCEPT !.inbox = Tail(ctx.inbox)]
    /\ polled' = Shift(note, ctx, r)
    /\ pc' = AfterPoll(r.res.state)
    /\ events' = IF r.res.state = 1 THEN << ResultEvent(r.res) >> ELSE events
Poll ==
    /\ pc = "poll"
    /\ events = << >>
    /\ watch.inbox # << >>
    /\ PollTook(watch, Head(watch.inbox), file_watcher_poll(watch, Head(watch.inbox)))
    /\ UNCHANGED << variant, paths, read_ctx, parse_data, parse_ctx, clear_before,
                    last_tp, read_files, cb_calls, nread, last >>
    /\ UNCHANGED << persistent, prev_size, last_player_count, latest, nops, fed,
                    handled >>
    /\ UNCHANGED << chunkVars, skipVars, graph, listing, threads >>

\* watcher.poll() finds nothing to read: epoll_wait returns 0 (file_watcher.c
\* 88-109), GetOverlappedResult fails with ERROR_IO_INCOMPLETE
PollNothing ==
    /\ pc = "poll"
    /\ events = << >>
    /\ watch.inbox = << >>
    /\ polled' = [polled EXCEPT !.state = NoData.state]
    /\ pc' = AfterPoll(NoData.state)
    /\ UNCHANGED << variant, paths, read_ctx, parse_data, parse_ctx, clear_before,
                    last_tp, read_files, cb_calls, nread, last >>
    /\ UNCHANGED tailVars
    /\ UNCHANGED << chunkVars, skipVars, graph, watch, listing, threads >>

\* main.cpp line 493: sleep_for(100 ms)
Sleep ==
    /\ pc = "sleep"
    /\ pc' = "poll"
    /\ UNCHANGED << variant, paths, read_ctx, parse_data, parse_ctx, clear_before,
                    last_tp, read_files, cb_calls, nread, last >>
    /\ UNCHANGED tailVars
    /\ UNCHANGED observers

\* the OS queues a notification for the watched directory (nops counts them)
Notify(note) ==
    /\ watch.backend \in {"linux", "windows"}
    /\ watch.has_value
    /\ nops < MaxNotes
    /\ nops' = nops + 1
    /\ watch' = [watch EXCEPT !.inbox = Append(@, note)]
    /\ UNCHANGED parseVars
    /\ UNCHANGED << persistent, prev_size, last_player_count, latest, events, fed,
                    handled >>
    /\ UNCHANGED << chunkVars, skipVars, graph, polled, listing, threads >>

\* main.cpp line 372: the watcher is made when parse_logs has returned
MainCommitWatched ==
    /\ MainCommit
    /\ watch' = file_watcher_init(watch.backend, WatchedChars)
    /\ UNCHANGED << chunkVars, skipVars, graph, polled, listing, threads >>

(***************************************************************************)
(* What happens to latest.log while the watcher exists, and the result     *)
(* file_watcher_poll has for it.                                           *)
(***************************************************************************)
Changed(file, event) ==
    /\ pc \in {"startup", "poll"}
    /\ nops < MaxFileOps
    /\ nops' = nops + 1
    /\ latest' = file
    /\ events' = Append(events, event)
    /\ UNCHANGED parseVars
    /\ UNCHANGED << persistent, prev_size, last_player_count, handled >>

\* the server writes a line: IN_MODIFY
WriteLine(s, mtime) ==
    /\ latest.exists
    /\ Len(latest.lines) < MaxLines
    /\ mtime >= latest.mtime
    /\ Changed(File(TRUE, Append(latest.lines, s), mtime), Event("modify", NoFile))
    /\ UNCHANGED fed

\* the file is cut back to its first k lines: IN_MODIFY
Truncate(k, mtime) ==
    /\ latest.exists
    /\ k < Len(latest.lines)
    /\ mtime >= latest.mtime
    /\ Changed(File(TRUE, SubSeq(latest.lines, 1, k), mtime), Event("modify", NoFile))
    /\ fed' = << >>

\* latest.log is renamed within the directory: IN_MOVED_FROM, IN_MOVED_TO
MoveAway(name) ==
    /\ latest.exists
    /\ Changed(NoLatest, Event("moved_to", name))
    /\ fed' = << >>

\* latest.log is created anew: IN_CREATE
CreateFile(mtime) ==
    /\ ~latest.exists
    /\ Changed(File(TRUE, << >>, mtime), Event("create", NoFile))
    /\ fed' = << >>

\* another file is renamed to latest.log: IN_MOVED_TO of latest.log
MoveInto(lines, mtime) ==
    /\ Changed(File(TRUE, lines, mtime), Event("create_moved", NoFile))
    /\ fed' = << >>

(***************************************************************************)
(* The lines the files hold.                                               *)
(***************************************************************************)
Line(t, words) == [ts |-> Some(t), tag |-> TRUE, toks |-> words, sp |-> FALSE]
UuidOf(n, text) == <<"UUID", "of", "player", n, "is", text>>
Joined(n) == << n, "joined", "the", "game" >>
Left(n) == << n, "left", "the", "game" >>
StoppingServer == <<"Stopping", "server">>
StoppingTheServer == <<"Stopping", "the", "server">>
Starting == <<"Starting", "minecraft", "server", "version", "1.21">>
Other == <<"Done", "(1.5s)!">>
Formerly(n, old) == << n, "(formerly", "known", "as", old \o ")", "joined", "the", "game" >>
\* a line that does not start with [HH:MM:SS], and one whose time stamp is
\* not followed by "[...]:"
Unstamped(words) == [ts |-> None, tag |-> TRUE, toks |-> words, sp |-> FALSE]
Untagged(t, words) == [ts |-> Some(t), tag |-> FALSE, toks |-> words, sp |-> FALSE]

BackfillLines ==
    { Line(TenOClock, UuidOf("a", TextA)),
      Line(TenOClock, Joined("a")),
      Line(NineOClock, Left("a")),
      Line(TenOClock, Left("a")),
      Line(TenOClock, Left("b")),
      Line(NineOClock, StoppingServer),
      Line(TenOClock, StoppingTheServer),
      Line(NineOClock, Starting),
      Line(NineOClock, Other) }

BackfillPaths ==
    { << >>,
      << Plain(1, 1) >>,
      << Plain(1, 1), Plain(1, 2) >>,
      << Plain(1, 1), Plain(2, 1) >>,
      << Plain(1, 1), Path(LatestLog, FALSE, TRUE, Noon(1)) >> }

\* the files the backfill finds, and latest.log as main finds it
TailPaths == { << >>, << Plain(1, 1) >> }
Mtimes == { Noon(2) }
InitialLatest ==
    { NoLatest, File(TRUE, << >>, Noon(2)),
      File(TRUE, << Line(NineOClock, Joined("a")) >>, Noon(2)) }
\* the lines the server writes while main follows latest.log
TailLines ==
    { Line(TenOClock, UuidOf("a", TextA)),
      Line(NineOClock, Joined("a")),
      Line(TenOClock, Left("a")) }
\* the names latest.log is renamed to, and the files renamed to latest.log
MovedNames == { Dated(1, 2, FALSE), Dated(1, 2, TRUE) }
MovedInLines == { << >>, << Line(TenOClock, Left("a")) >> }

(***************************************************************************)
(* A second parser state that is given, through parse_lines as main gives  *)
(* latest.log, the lines parse_logs reads from one file.                   *)
(***************************************************************************)
NoChunks ==
    [ctx |-> InitCtx, data |-> EmptyData, calls |-> 0, longest |-> 0,
     before |-> InitCtx, changed |-> FALSE]
\* r is what parse_lines left when given a chunk of k lines
Chunked(k, r) ==
    [ctx |-> r.ctx, data |-> r.data, calls |-> chunked.calls + 1,
     longest |-> IF k > chunked.longest THEN k ELSE chunked.longest,
     before |-> chunked.ctx, changed |-> r.changed]
\* main.cpp lines 457-467: the next k lines are read and given to parse_lines
FeedChunk(k, order) ==
    /\ k <= Len(pending)
    /\ chunked' = Chunked(k, parse_lines(SubSeq(pending, 1, k), chunked.ctx,
                                         chunked.data, order))
    /\ pending' = SubSeq(pending, k + 1, Len(pending))
    /\ UNCHANGED parseVars
    /\ UNCHANGED tailVars
    /\ UNCHANGED << skipVars, graph, watchVars, listing, threads >>
\* the line parse_logs read is kept for parse_lines
Keep(s) ==
    /\ pending' = Append(pending, s)
    /\ UNCHANGED << chunked, skipVars, graph, watchVars, listing, threads >>

(***************************************************************************)
(* The backfill: playtime.cpp, and main.cpp up to the return of parse_logs.*)
(***************************************************************************)
Init ==
    /\ InitWith(BackfillPaths, {Playtime, Main(0)}, {NoLatest})
    /\ chunked = NoChunks
    /\ pending = << >>
    /\ opened = << >>
    /\ clean = NoClean
    /\ graph = NoGraph
    /\ watch = NoWatch
    /\ polled = NoPoll
    /\ listing = NoListing
    /\ threads = NoThreads

Next ==
    \/ \E s \in BackfillLines, order \in Orders :
          ParseLogsLine(s, order) /\ UNCHANGED observers
    \/ \E s \in BackfillLines, order \in Orders, empties \in SUBSET (1..Len(paths)) :
          ParseLogsNewFile(s, empties, order) /\ UNCHANGED observers
    \/ ParseLogsNoPaths /\ UNCHANGED observers
    \/ \E now \in Nows, order \in Orders, empties \in SUBSET (1..Len(paths)) :
          ParseLogsEnd(empties, now, order) /\ UNCHANGED observers

Spec == Init /\ [][Next]_vars

(***************************************************************************)
(* main.cpp as a whole: the backfill, the initial parse of latest.log and  *)
(* the loop, with latest.log changing under it.                            *)
(***************************************************************************)
InitTail ==
    /\ InitWith(TailPaths, {Playtime, Main(0)}, InitialLatest)
    /\ chunked = NoChunks
    /\ pending = << >>
    /\ opened = << >>
    /\ clean = NoClean
    /\ graph = NoGraph
    /\ watch = NoWatch
    /\ polled = NoPoll
    /\ listing = NoListing
    /\ threads = NoThreads

NextTail ==
    \/ \E s \in TailLines, order \in Orders :
          ParseLogsLine(s, order) /\ UNCHANGED observers
    \/ \E s \in TailLines, order \in Orders, empties \in SUBSET (1..Len(paths)) :
          ParseLogsNewFile(s, empties, order) /\ UNCHANGED observers
    \/ ParseLogsNoPaths /\ UNCHANGED observers
    \/ \E now \in Nows, order \in Orders, empties \in SUBSET (1..Len(paths)) :
          ParseLogsEnd(empties, now, order) /\ UNCHANGED observers
    \/ MainCommit /\ UNCHANGED observers
    \/ \E order \in Orders : MainStartup(order) /\ UNCHANGED observers
    \/ HandleCreate /\ UNCHANGED observers
    \/ \E order \in Orders : HandleCreateMoved(order) /\ UNCHANGED observers
    \/ \E order \in Orders : HandleModify(order) /\ UNCHANGED observers
    \/ HandleMovedTo /\ UNCHANGED observers
    \/ \E s \in TailLines, mtime \in Mtimes : WriteLine(s, mtime) /\ UNCHANGED observers
    \/ \E k \in 0..MaxLines, mtime \in Mtimes : Truncate(k, mtime) /\ UNCHANGED observers
    \/ \E name \in MovedNames : MoveAway(name) /\ UNCHANGED observers
    \/ \E mtime \in Mtimes : CreateFile(mtime) /\ UNCHANGED observers
    \/ \E lines \in MovedInLines, mtime \in Mtimes :
          MoveInto(lines, mtime) /\ UNCHANGED observers

SpecTail == InitTail /\ [][NextTail]_vars

(***************************************************************************)
(* main.cpp with its threads: main, which holds parse_data_ctx_mutex from  *)
(* line 270 to line 402 and again in the handlers of create_moved and      *)
(* modify, and the handlers of on_slashcommand, which the bot runs on its  *)
(* own threads from line 358 on.  A handler of main that takes the mutex   *)
(* is a sequence of steps here: lock, copy of persistent_data_ctx, read of *)
(* the file, one parse_line for each line, unlock.                         *)
(***************************************************************************)
\* what no step of a handler of main that holds the mutex changes
mainFrame == << pc, variant, paths, read_ctx, clear_before, last_tp, read_files,
                cb_calls, nread, last, persistent, latest, nops >>
otherModels == << chunkVars, skipVars, graph, watchVars, listing >>
HeadKind == Head(events).kind
\* the commands blocked in std::scoped_lock lock(parse_data_ctx_mutex)
Waiting == { c \in Commands : threads.cmd[c].pc = "wait" }
\* lines 427 and 449: the branch that copies persistent_data_ctx is taken
RestoreNeeded ==
    \/ HeadKind = "create_moved" /\ FileSize > 0
    \/ HeadKind = "modify" /\ FileSize < prev_size
\* lines 427 and 457: the file is read and parsed
ParseNeeded == FileSize > 0 /\ (HeadKind = "create_moved" \/ FileSize > prev_size)
\* line 459: fin.seekg(prev_size); create_moved reads from the start
ReadFrom == IF HeadKind = "create_moved" THEN 0 ELSE prev_size

\* lines 423-426 and 447-448: the lock is taken; create_moved then calls
\* update_date_tp
MainLock ==
    /\ pc = "poll"
    /\ events # << >>
    /\ HeadKind \in { "create_moved", "modify" }
    /\ threads.step = "none"
    /\ threads.mutex = Unowned
    /\ threads' = [threads EXCEPT !.mutex = ByMain, !.step = "locked", !.work = NoWork]
    /\ parse_ctx' = IF HeadKind = "create_moved"
                    THEN update_date_tp(parse_ctx, variant.tz) ELSE parse_ctx
    /\ UNCHANGED << parse_data, prev_size, last_player_count, events, fed, handled >>
    /\ UNCHANGED mainFrame
    /\ UNCHANGED otherModels

\* lines 430 and 451-454: parse_data_ctx = persistent_data_ctx
MainRestore ==
    /\ threads.step = "locked"
    /\ RestoreNeeded
    /\ parse_ctx' = persistent.ctx
    /\ parse_data' = persistent.data
    /\ prev_size' = IF HeadKind = "modify" THEN 0 ELSE prev_size
    /\ threads' = [threads EXCEPT !.step = "restored",
                                  !.work.do_update = (HeadKind = "modify"),
                                  !.waited = @ \cup Waiting]
    /\ UNCHANGED << last_player_count, events, fed, handled >>
    /\ UNCHANGED mainFrame
    /\ UNCHANGED otherModels

\* lines 431-438 and 459-466: the file is read into s
MainRead ==
    /\ \/ threads.step = "locked" /\ ~RestoreNeeded
       \/ threads.step = "restored"
    /\ ParseNeeded
    /\ threads' = [threads EXCEPT !.step = "parsing",
                                  !.work.rest = SubSeq(latest.lines, ReadFrom + 1,
                                                       FileSize)]
    /\ fed' = Feed(fed, ReadFrom, FileSize)
    /\ UNCHANGED << parse_ctx, parse_data, prev_size, last_player_count, events,
                    handled >>
    /\ UNCHANGED mainFrame
    /\ UNCHANGED otherModels

\* r is what parse_line returned for the first line that is left
LineParsed(r) ==
    /\ parse_ctx' = r.ctx
    /\ parse_data' = r.data
    /\ threads' = [threads EXCEPT !.work.rest = Tail(@),
                                  !.work.changed = @ \/ r.player_join_left,
                                  !.waited = @ \cup Waiting]
\* parse_lines, lines 504-514: one turn of the loop
MainParseLine(order) ==
    /\ threads.step = "parsing"
    /\ threads.work.rest # << >>
    /\ LineParsed(parse_line(Head(threads.work.rest), parse_ctx, parse_data, FALSE,
                             order))
    /\ UNCHANGED << prev_size, last_player_count, events, fed, handled >>
    /\ UNCHANGED mainFrame
    /\ UNCHANGED otherModels

\* r is what parse_line returned for the text after the last '\n'
ChunkParsed(r) ==
    /\ parse_ctx' = r.ctx
    /\ parse_data' = r.data
    /\ last_player_count' =
          IF \/ HeadKind = "create_moved"
             \/ threads.work.changed
             \/ r.player_join_left
             \/ threads.work.do_update
          THEN update_player_count(r.ctx)
          ELSE last_player_count
    /\ threads' = [threads EXCEPT !.step = "parsed"]
\* the last turn of the loop of parse_lines, and lines 440 and 467-468
MainParsed(order) ==
    /\ threads.step = "parsing"
    /\ threads.work.rest = << >>
    /\ ChunkParsed(parse_line(EmptyLine, parse_ctx, parse_data, FALSE, order))
    /\ UNCHANGED << prev_size, events, fed, handled >>
    /\ UNCHANGED mainFrame
    /\ UNCHANGED otherModels

\* lines 442-443 and 470-471: prev_size = size, and the lock goes out of
\* scope
MainUnlock ==
    /\ \/ threads.step = "parsed"
       \/ threads.step = "restored" /\ ~ParseNeeded
       \/ threads.step = "locked" /\ ~RestoreNeeded /\ ~ParseNeeded
    /\ prev_size' = FileSize
    /\ events' = Tail(events)
    /\ handled' = Seen(HeadKind)
    /\ threads' = [threads EXCEPT !.mutex = Unowned, !.step = "none"]
    /\ UNCHANGED << parse_ctx, parse_data, last_player_count, fed >>
    /\ UNCHANGED mainFrame
    /\ UNCHANGED otherModels

\* line 402: parse_data_ctx_mutex.unlock() once latest.log has been parsed
StartupUnlock(order) ==
    /\ MainStartup(order)
    /\ threads' = [threads EXCEPT !.mutex = Unowned, !.early = Waiting]
    /\ UNCHANGED otherModels

\* the bot calls the handler of on_slashcommand for a command
CommandArrives(c, kind) ==
    /\ threads.cmd[c].pc = "idle"
    /\ threads' = [threads EXCEPT !.cmd[c].kind = kind,
                                  !.cmd[c].pc = IF kind = "graph" THEN "limit"
                                                ELSE "wait"]
    /\ UNCHANGED << parseVars, tailVars, otherModels >>

\* lines 285-287: "std::scoped_lock(next_tp_mutex);" declares a scoped_lock
\* of no mutex that is named next_tp_mutex, and locks nothing; the handler
\* reads the clock and graph_command_next_tp
GraphChecks(c) ==
    /\ threads.cmd[c].pc = "limit"
    /\ threads' = [threads EXCEPT
          !.cmd[c].now = threads.clock,
          !.cmd[c].passed = (threads.clock >= threads.graph_command_next_tp),
          !.cmd[c].pc = IF threads.clock >= threads.graph_command_next_tp
                        THEN "set" ELSE "done"]
    /\ UNCHANGED << parseVars, tailVars, otherModels >>

\* line 288: graph_command_next_tp = now + std::chrono::seconds(60)
GraphSets(c) ==
    /\ threads.cmd[c].pc = "set"
    /\ threads' = [threads EXCEPT
          !.graph_command_next_tp = threads.cmd[c].now + RateLimit,
          !.cmd[c].pc = "wait"]
    /\ UNCHANGED << parseVars, tailVars, otherModels >>

\* a command that reads without the mutex
CommandLocksUnguarded(c) ==
    /\ threads.cmd[c].pc = "wait"
    /\ threads' = [threads EXCEPT !.cmd[c].pc = "read"]
    /\ UNCHANGED << parseVars, tailVars, otherModels >>

\* lines 314 and 333: std::scoped_lock lock(parse_data_ctx_mutex)
CommandLocks(c) ==
    /\ threads.cmd[c].pc = "wait"
    /\ threads.mutex = Unowned
    /\ threads' = [threads EXCEPT !.mutex = ByCommand(c), !.cmd[c].pc = "read"]
    /\ UNCHANGED << parseVars, tailVars, otherModels >>

\* lines 315-320 and 334-350: parse_data and parse_ctx are read, and the
\* lock goes out of scope
CommandUnlocks(c) ==
    /\ threads.cmd[c].pc = "read"
    /\ threads' = [threads EXCEPT
          !.mutex = IF @ = ByCommand(c) THEN Unowned ELSE @,
          !.cmd[c].pc = "done"]
    /\ UNCHANGED << parseVars, tailVars, otherModels >>

\* time passes
Tick ==
    /\ threads.ticks < MaxTicks
    /\ threads' = [threads EXCEPT !.clock = @ + RateLimit \div 2, !.ticks = @ + 1]
    /\ UNCHANGED << parseVars, tailVars, otherModels >>

ThreadLines == { Line(TenOClock, Joined("b")) }
InitThreads ==
    /\ pc = "parse_logs"
    /\ Constructed({Main(0)}, {File(TRUE, << Line(NineOClock, Joined("a")) >>, Noon(2))})
    /\ paths = << >>
    /\ chunked = NoChunks
    /\ pending = << >>
    /\ opened = << >>
    /\ clean = NoClean
    /\ graph = NoGraph
    /\ watch = NoWatch
    /\ polled = NoPoll
    /\ listing = NoListing
    /\ threads = NoThreads

\* main is not in the middle of a handler: the changes of latest.log that
\* the handler would see between two of its steps are left out
NoHandler == threads.step = "none" /\ nops < MaxThreadOps
NextThreads ==
    \/ ParseLogsNoPaths /\ UNCHANGED observers
    \/ MainCommit /\ UNCHANGED observers
    \/ \E order \in Orders : StartupUnlock(order)
    \/ HandleCreate /\ UNCHANGED observers
    \/ HandleMovedTo /\ UNCHANGED observers
    \/ MainLock
    \/ MainRestore
    \/ MainRead
    \/ \E order \in Orders : MainParseLine(order)
    \/ \E order \in Orders : MainParsed(order)
    \/ MainUnlock
    \/ \E s \in ThreadLines, mtime \in Mtimes :
          NoHandler /\ WriteLine(s, mtime) /\ UNCHANGED observers
    \/ \E k \in 0..MaxLines, mtime \in Mtimes :
          NoHandler /\ Truncate(k, mtime) /\ UNCHANGED observers
    \/ \E name \in MovedNames : NoHandler /\ MoveAway(name) /\ UNCHANGED observers
    \/ \E mtime \in Mtimes : NoHandler /\ CreateFile(mtime) /\ UNCHANGED observers
    \/ \E lines \in MovedInLines, mtime \in Mtimes :
          NoHandler /\ MoveInto(lines, mtime) /\ UNCHANGED observers
    \/ \E c \in Commands, kind \in { "graph", "players" } : CommandArrives(c, kind)
    \/ \E c \in Commands : GraphChecks(c)
    \/ \E c \in Commands : GraphSets(c)
    \/ \E c \in Commands : CommandLocks(c)
    \/ \E c \in Commands : CommandUnlocks(c)
    \/ Tick

SpecThreads == InitThreads /\ [][NextThreads]_vars

(***************************************************************************)
(* One file read by parse_logs line by line, and the same lines given to   *)
(* parse_lines in chunks, on the day of the file.                          *)
(***************************************************************************)
ChunkPaths == { << Plain(1, 1) >> }
InitChunks ==
    /\ InitWith(ChunkPaths, {Main(0)}, {NoLatest})
    /\ chunked = [NoChunks EXCEPT !.ctx.date_tp = FileNameDate(paths[1].name)]
    /\ pending = << >>
    /\ opened = << >>
    /\ clean = NoClean
    /\ graph = NoGraph
    /\ watch = NoWatch
    /\ polled = NoPoll
    /\ listing = NoListing
    /\ threads = NoThreads

NextChunks ==
    \/ \E s \in BackfillLines, order \in Orders : ParseLogsLine(s, order) /\ Keep(s)
    \/ \E s \in BackfillLines, order \in Orders :
          ParseLogsNewFile(s, {}, order) /\ Keep(s)
    \/ \E now \in Nows, order \in Orders :
          ParseLogsEnd({}, now, order) /\ UNCHANGED observers
    \/ \E k \in 1..MaxLines, order \in Orders : FeedChunk(k, order)

SpecChunks == InitChunks /\ [][NextChunks]_vars

(***************************************************************************)
(* The backfill of a directory in which get_next_line skips files: a .gz   *)
(* file that does not decompress, a name from which no date is read, a     *)
(* file that holds no line.                                                *)
(***************************************************************************)
Gz(day, seq, corrupt) == Path(Dated(day, seq, TRUE), corrupt, TRUE, 0)
\* a name of the accepted shape that from_stream rejects (0000-00-00-1.log)
NoDate(seq) == Path(Dated(0, seq, FALSE), FALSE, FALSE, 0)
SkipPaths ==
    { << Plain(1, 1), Gz(1, 2, TRUE), Plain(1, 3) >>,
      << Plain(1, 1), Gz(1, 2, TRUE), Plain(2, 1) >>,
      << Gz(1, 1, TRUE), Plain(1, 2) >>,
      << Plain(1, 1), Gz(1, 2, TRUE) >>,
      << Gz(1, 1, TRUE) >>,
      << Gz(1, 1, FALSE), Plain(1, 2) >>,
      << NoDate(1), Plain(1, 1), Plain(1, 2) >> }

\* get_next_line lines 200-213 and 231-246: the path is passed over
\* without a stream being made for it
Skipped(p, skip_latest_log) ==
    \/ ~(~skip_latest_log /\ p.name.kind = "latest") /\ ~p.date_ok
    \/ p.name.gz /\ p.corrupt
\* the paths after from up to to that were given a stream, in order
OpenedBetween(from, to, empties) ==
    LET inds == SelectSeq([k \in 1..(to - from) |-> from + k],
                          LAMBDA i : ~Skipped(paths[i], variant.skip_latest_log))
    IN  [k \in DOMAIN inds |-> [path |-> inds[k], empty |-> inds[k] \in empties]]
Opened(empties) ==
    opened' = opened \o OpenedBetween(read_ctx.path_ind, read_ctx'.path_ind, empties)

(***************************************************************************)
(* parse_logs, lines 527-610: the log directory is listed, the names that  *)
(* are not those of logs are erased, the rest is sorted and duplicates are *)
(* removed.  A file name is the tuple of its characters.                   *)
(***************************************************************************)
MaxEntries == 3

\* latest.log
NameLatest == << "l", "a", "t", "e", "s", "t", ".", "l", "o", "g" >>
\* 2024-01-01-1.log
NameSeq1 ==
    << "2", "0", "2", "4", "-", "0", "1", "-", "0", "1", "-", "1", ".", "l", "o",
    "g" >>
\* 2024-01-01-1.log.gz
NameSeq1Gz ==
    << "2", "0", "2", "4", "-", "0", "1", "-", "0", "1", "-", "1", ".", "l", "o",
    "g", ".", "g", "z" >>
\* 2024-01-01-2.log
NameSeq2 ==
    << "2", "0", "2", "4", "-", "0", "1", "-", "0", "1", "-", "2", ".", "l", "o",
    "g" >>
\* 2024-01-01-10.log.gz
NameSeq10Gz ==
    << "2", "0", "2", "4", "-", "0", "1", "-", "0", "1", "-", "1", "0", ".", "l",
    "o", "g", ".", "g", "z" >>
\* 2024-01-01.log
NameNoSeq == << "2", "0", "2", "4", "-", "0", "1", "-", "0", "1", ".", "l", "o", "g" >>
\* 2024-01-01.log.gz
NameNoSeqGz ==
    << "2", "0", "2", "4", "-", "0", "1", "-", "0", "1", ".", "l", "o", "g", ".",
    "g", "z" >>
\* 2024-01-02-1.log
NameNextDay ==
    << "2", "0", "2", "4", "-", "0", "1", "-", "0", "2", "-", "1", ".", "l", "o",
    "g" >>
\* 2024-01-01-01.log
NameSeq01 ==
    << "2", "0", "2", "4", "-", "0", "1", "-", "0", "1", "-", "0", "1", ".", "l",
    "o", "g" >>
\* 2024-01-01-99999999999.log: a sequence that no unsigned int holds
NameSeqBig ==
    << "2", "0", "2", "4", "-", "0", "1", "-", "0", "1", "-", "9", "9", "9", "9",
    "9", "9", "9", "9", "9", "9", "9", ".", "l", "o", "g" >>
\* debug.log
NameDebug == << "d", "e", "b", "u", "g", ".", "l", "o", "g" >>
\* 2024-01-01-1.txt
NameText ==
    << "2", "0", "2", "4", "-", "0", "1", "-", "0", "1", "-", "1", ".", "t", "x",
    "t" >>
\* 2024-01-01-1.gz
NameBareGz == << "2", "0", "2", "4", "-", "0", "1", "-", "0", "1", "-", "1", ".", "g", "z" >>
DirNames ==
    { NameLatest, NameSeq1, NameSeq1Gz, NameSeq2, NameSeq10Gz, NameNoSeq, NameNoSeqGz,
      NameNextDay, NameSeq01, NameSeqBig, NameDebug, NameText, NameBareGz }
\* a directory entry; the entry that is not a regular file is a directory
DirEntry(name, regular) == [name |-> name, regular |-> regular]
DirEntries == { DirEntry(n, TRUE) : n \in DirNames } \cup { DirEntry(NameSeq2, FALSE) }
Dirs ==
    { d \in SUBSET DirEntries :
        /\ Cardinality(d) <= MaxEntries
        /\ \A e, f \in d : e.name = f.name => e = f }

is_digit(c) == IndexIn(c, DecDigits) > 0
\* p_str[i], i counted from 0; p_str[p_str.size()] is the character '\0'
At(p_str, i) == IF i < Len(p_str) THEN p_str[i + 1] ELSE "\\0"
\* p_str from the place ind on
From(p_str, ind) == SubSeq(p_str, ind + 1, Len(p_str))
\* std::filesystem::path::extension: from the last dot, unless it leads the name
LastDot(p_str) ==
    IF \E i \in DOMAIN p_str : p_str[i] = "."
    THEN CHOOSE i \in DOMAIN p_str :
            p_str[i] = "." /\ \A j \in (i + 1)..Len(p_str) : p_str[j] # "."
    ELSE 0
extension(p_str) ==
    IF LastDot(p_str) > 1 THEN SubSeq(p_str, LastDot(p_str), Len(p_str)) ELSE << >>
ExtGz == << ".", "g", "z" >>
ExtLog == << ".", "l", "o", "g" >>
ExtLogGz == << ".", "l", "o", "g", ".", "g", "z" >>
\* lines 528-537: the entries emplaced in read_ctx.paths
Listed(dir) == { e \in dir : e.regular /\ extension(e.name) \in {ExtGz, ExtLog} }
is_gz(e) == extension(e.name) = ExtGz

\* while (is_digit(p_str[ind])) ind++
RECURSIVE SkipDigits(_, _)
SkipDigits(p_str, ind) ==
    IF is_digit(At(p_str, ind)) THEN SkipDigits(p_str, ind + 1) ELSE ind
\* Erased with the dash and the digits of the sequence left to choice
ErasedUnlessDated(p_str, gz, skip_latest_log) ==
    IF ~skip_latest_log /\ p_str = NameLatest THEN FALSE
    ELSE IF \E i \in {0, 1, 2, 3, 5, 6, 8, 9} : ~is_digit(At(p_str, i)) THEN TRUE
    ELSE IF \E i \in {4, 7} : At(p_str, i) # "-" THEN TRUE
    ELSE IF At(p_str, 10) = "-" /\ is_digit(At(p_str, 11))
    THEN From(p_str, SkipDigits(p_str, 12)) # (IF gz THEN ExtLogGz ELSE ExtLog)
    ELSE From(p_str, 10) # (IF gz THEN ExtLogGz ELSE ExtLog)
\* lines 541-567: the predicate of std::erase_if
Erased(p_str, gz, skip_latest_log) ==
    IF ~skip_latest_log /\ p_str = NameLatest THEN FALSE
    ELSE IF \E i \in {0, 1, 2, 3, 5, 6, 8, 9, 11} : ~is_digit(At(p_str, i)) THEN TRUE
    ELSE IF \E i \in {4, 7, 10} : At(p_str, i) # "-" THEN TRUE
    ELSE From(p_str, SkipDigits(p_str, 12)) # (IF gz THEN ExtLogGz ELSE ExtLog)

\* the digits p_str[11 .. ind - 1] that the comparison hands to from_chars
SeqDigits(p_str) == SubSeq(p_str, 12, SkipDigits(p_str, 12))
RECURSIVE StripZeros(_)
StripZeros(d) == IF Len(d) > 1 /\ Head(d) = "0" THEN StripZeros(Tail(d)) ELSE d
\* x < y as numbers, x and y being digits without leading zeros
StrippedLess(x, y) ==
    \/ Len(x) < Len(y)
    \/ /\ Len(x) = Len(y)
       /\ \E i \in DOMAIN x :
             /\ IndexIn(x[i], DecDigits) < IndexIn(y[i], DecDigits)
             /\ \A j \in 1..(i - 1) : x[j] = y[j]
NumLess(a, b) == StrippedLess(StripZeros(a), StripZeros(b))
\* std::numeric_limits<unsigned int>::max() = 2^32 - 1
MaxUnsigned == << "4", "2", "9", "4", "9", "6", "7", "2", "9", "5" >>
\* std::from_chars stores a value: the digits d are one an unsigned int
\* holds; otherwise it returns result_out_of_range and stores nothing
in_range(d) == ~NumLess(MaxUnsigned, d)
\* lhs_num and rhs_num are both stored; if not, the comparison reads an
\* unsigned int that was never given a value
NumsStored(lhs, rhs) == in_range(SeqDigits(lhs)) /\ in_range(SeqDigits(rhs))

\* std::from_chars of the digits p_str[first .. last - 1]
RECURSIVE from_chars(_, _, _)
from_chars(p_str, first, end) ==
    IF first >= end THEN 0
    ELSE from_chars(p_str, first, end - 1) * 10
         + (IndexIn(At(p_str, end - 1), DecDigits) - 1)
\* the characters compared are digits and '-', which is less than a digit
CharCode(c) == IF is_digit(c) THEN 48 + IndexIn(c, DecDigits) - 1 ELSE 45
\* std::lexicographical_compare_three_way of the first 10 characters: less
DateLess(lhs, rhs) ==
    \E i \in 0..9 :
        /\ CharCode(At(lhs, i)) < CharCode(At(rhs, i))
        /\ \A j \in 0..(i - 1) : At(lhs, j) = At(rhs, j)
DateEqual(lhs, rhs) == \A i \in 0..9 : At(lhs, i) = At(rhs, i)
\* lines 569-597: the comparison std::ranges::sort is given, for lhs_num and
\* rhs_num that from_chars stored
SortLess(lhs, rhs, skip_latest_log) ==
    IF ~skip_latest_log /\ lhs = NameLatest THEN FALSE
    ELSE IF ~skip_latest_log /\ rhs = NameLatest THEN TRUE
    ELSE IF ~DateEqual(lhs, rhs) THEN DateLess(lhs, rhs)
    ELSE NumLess(SeqDigits(lhs), SeqDigits(rhs))
\* the comparison returns what SortLess says: it does not read lhs_num or
\* rhs_num, or both were stored
Determined(lhs, rhs, skip_latest_log) ==
    \/ ~skip_latest_log /\ NameLatest \in { lhs, rhs }
    \/ ~DateEqual(lhs, rhs)
    \/ NumsStored(lhs, rhs)
\* the orders std::ranges::sort may leave the entries kept in: the sort is
\* not stable, and a comparison that reads a number never stored may return
\* either answer
Sorted(kept, skip_latest_log) ==
    { q \in [1..Cardinality(kept) -> kept] :
        /\ \A i, j \in DOMAIN q : i # j => q[i] # q[j]
        /\ \A i, j \in DOMAIN q :
              (i < j /\ Determined(q[j].name, q[i].name, skip_latest_log))
                  => ~SortLess(q[j].name, q[i].name, skip_latest_log) }
\* log_filename_no_ext (lines 262-268) of an entry
filename_no_ext(e) == SubSeq(e.name, 1, Len(e.name) - (IF is_gz(e) THEN 7 ELSE 4))
\* lines 598-607: std::ranges::unique and erase; of equal neighbours the
\* first stays
unique(q) ==
    SelectSeq([i \in DOMAIN q |->
                  [e |-> q[i],
                   dup |-> i > 1 /\ filename_no_ext(q[i - 1]) = filename_no_ext(q[i])]],
              LAMBDA x : ~x.dup)
\* the entry as get_next_line sees it: its date, sequence and compression
PathOf(e) ==
    IF e.name = NameLatest THEN Path(LatestLog, FALSE, TRUE, Noon(2))
    ELSE Path(Dated(from_chars(e.name, 8, 10),
                    IF in_range(SeqDigits(e.name))
                    THEN from_chars(e.name, 11, SkipDigits(e.name, 12)) ELSE 0,
                    is_gz(e)),
              FALSE, TRUE, 0)
\* u is read_ctx.paths after lines 527-607
Enumerated(u) ==
    /\ listing' = [listing EXCEPT !.paths = [i \in DOMAIN u |-> u[i].e]]
    /\ paths' = [i \in DOMAIN u |-> PathOf(u[i].e)]
Enumerate ==
    /\ pc = "enumerate"
    /\ \E q \in Sorted({ e \in Listed(listing.dir) :
                           ~Erased(e.name, is_gz(e), variant.skip_latest_log) },
                       variant.skip_latest_log) :
          Enumerated(unique(q))
    /\ pc' = "parse_logs"
    /\ UNCHANGED << variant, read_ctx, parse_data, parse_ctx, clear_before, last_tp,
                    read_files, cb_calls, nread, last >>
    /\ UNCHANGED tailVars
    /\ UNCHANGED << chunkVars, skipVars, graph, watchVars, threads >>

EnumLines == { Line(TenOClock, Joined("a")), Line(TenOClock, Left("a")) }

InitEnum ==
    /\ pc = "enumerate"
    /\ Constructed({Playtime, Main(0)}, {NoLatest})
    /\ paths = << >>
    /\ chunked = NoChunks
    /\ pending = << >>
    /\ opened = << >>
    /\ clean = NoClean
    /\ graph = NoGraph
    /\ watch = NoWatch
    /\ polled = NoPoll
    /\ listing \in { [dir |-> d, paths |-> << >>] : d \in Dirs }
    /\ threads = NoThreads

NextEnum ==
    \/ Enumerate
    \/ \E s \in EnumLines, order \in Orders :
          ParseLogsLine(s, order) /\ UNCHANGED observers
    \/ \E s \in EnumLines, order \in Orders, empties \in SUBSET (1..Len(paths)) :
          ParseLogsNewFile(s, empties, order) /\ UNCHANGED observers
    \/ \E now \in Nows, order \in Orders, empties \in SUBSET (1..Len(paths)) :
          ParseLogsEnd(empties, now, order) /\ UNCHANGED observers

SpecEnum == InitEnum /\ [][NextEnum]_vars

(***************************************************************************)
(* The backfill over files of one day and of two, some of them without a   *)
(* line, with lines that parse_line does not take for log lines.           *)
(***************************************************************************)
RotateLines ==
    { Line(NineOClock, UuidOf("a", TextA)),
      Line(NineOClock, Joined("a")),
      Line(TenOClock, Left("a")),
      Line(TenOClock, Other),
      Unstamped(Joined("a")),
      Untagged(TenOClock, StoppingServer) }
RotatePaths ==
    { << Plain(1, 1), Plain(1, 2) >>,
      << Plain(1, 1), Plain(2, 1) >>,
      << Plain(1, 1), Plain(1, 2), Plain(2, 1) >>,
      << Plain(1, 1), Plain(2, 1), Plain(2, 2) >> }

InitRotate ==
    /\ InitWith(RotatePaths, {Playtime, Main(0)}, {NoLatest})
    /\ chunked = NoChunks
    /\ pending = << >>
    /\ opened = << >>
    /\ clean = NoClean
    /\ graph = NoGraph
    /\ watch = NoWatch
    /\ polled = NoPoll
    /\ listing = NoListing
    /\ threads = NoThreads

NextRotate ==
    \/ \E s \in RotateLines, order \in Orders :
          ParseLogsLine(s, order) /\ UNCHANGED observers
    \/ \E s \in RotateLines, order \in Orders, empties \in SUBSET (1..Len(paths)) :
          ParseLogsNewFile(s, empties, order) /\ UNCHANGED observers
    \/ \E now \in Nows, order \in Orders, empties \in SUBSET (1..Len(paths)) :
          ParseLogsEnd(empties, now, order) /\ UNCHANGED observers

SpecRotate == InitRotate /\ [][NextRotate]_vars

(***************************************************************************)
(* parse_line by itself: it is given one line after another, as parse_logs *)
(* and parse_lines give it the lines of a file of day 1, with clear_before *)
(* as parse_logs sets it for the first line of a file.  The identities of  *)
(* a and b, one and the same, are on file from the start or are not.       *)
(***************************************************************************)
MaxParsed == 6

ParseLines ==
    { Line(NineOClock, UuidOf("a", TextA)),
      Line(NineOClock, Joined("a")),
      Line(TenOClock, Formerly("a", "b")),
      Line(TenOClock, Joined("b")),
      Line(TenOClock, Left("a")),
      Line(TenOClock, Left("b")),
      Line(TenOClock, StoppingServer),
      Line(TenOClock, StoppingTheServer),
      Line(TenOClock, Starting),
      Line(TenOClock, Other),
      Unstamped(Joined("b")),
      Untagged(TenOClock, StoppingServer) }
\* the lines that are given with clear_before set
FirstLines ==
    { Line(TenOClock, Other), Line(TenOClock, Formerly("a", "b")),
      Unstamped(Joined("b")), Untagged(TenOClock, StoppingServer) }
\* ctx after the lines "UUID of player a is ..." and "UUID of player b is ..."
\* that give both names one identity
KnownCtx ==
    [InitCtx EXCEPT !.player_info = [n \in Names |-> [uuid |-> ParsedA, join_time |-> None]]]
OnDay(ctx, day) == [ctx EXCEPT !.date_tp = day * SecondsPerDay]

\* r is what parse_line returned
ParsedOne(s, cb, order, r) ==
    /\ parse_ctx' = r.ctx
    /\ parse_data' = r.data
    /\ last' = Call(s, cb, parse_ctx, parse_data, order, r)
    /\ nread' = nread + 1
ParseOne(s, cb, order) ==
    /\ pc = "parse_line"
    /\ nread < MaxParsed
    /\ ParsedOne(s, cb, order, parse_line(s, parse_ctx, parse_data, cb, order))
    /\ UNCHANGED << pc, variant, paths, read_ctx, clear_before, last_tp, read_files,
                    cb_calls >>
    /\ UNCHANGED tailVars

InitParse ==
    /\ pc = "parse_line"
    /\ variant = Playtime
    /\ paths = << Plain(1, 1) >>
    /\ read_ctx = [path_ind |-> 1, open |-> TRUE, line |-> 0, date_tp |-> SecondsPerDay]
    /\ parse_data = EmptyData
    /\ parse_ctx \in { OnDay(InitCtx, 1), OnDay(KnownCtx, 1) }
    /\ clear_before = FALSE
    /\ last_tp = 0
    /\ read_files = << >>
    /\ cb_calls = << >>
    /\ nread = 0
    /\ last = NoCall
    /\ persistent = [ctx |-> InitCtx, data |-> EmptyData]
    /\ prev_size = 0
    /\ last_player_count = 0
    /\ latest = NoLatest
    /\ events = << >>
    /\ nops = 0
    /\ fed = << >>
    /\ handled = NoEvent
    /\ chunked = NoChunks
    /\ pending = << >>
    /\ opened = << >>
    /\ clean = NoClean
    /\ graph = NoGraph
    /\ watch = NoWatch
    /\ polled = NoPoll
    /\ listing = NoListing
    /\ threads = NoThreads

NextParse ==
    \E s \in ParseLines, cb \in BOOLEAN, order \in Orders :
        /\ cb => s \in FirstLines
        /\ ParseOne(s, cb, order)
        /\ UNCHANGED observers

SpecParse == InitParse /\ [][NextParse]_vars

(***************************************************************************)
(* The backfill of main.cpp with logs_timezone east or west of UTC.        *)
(***************************************************************************)
\* the configured zones, in seconds east of UTC: UTC, US/Pacific, Europe/Paris
Zones == { 0, 0 - 8 * SecondsPerHour, SecondsPerHour }
ZonePaths == { << Plain(1, 1) >>, << Plain(1, 1), Plain(2, 1) >> }

InitZone ==
    /\ InitWith(ZonePaths, { Main(tz) : tz \in Zones }, {NoLatest})
    /\ chunked = NoChunks
    /\ pending = << >>
    /\ opened = << >>
    /\ clean = NoClean
    /\ graph = NoGraph
    /\ watch = NoWatch
    /\ polled = NoPoll
    /\ listing = NoListing
    /\ threads = NoThreads

NextZone ==
    \/ \E s \in BackfillLines, order \in Orders :
          ParseLogsLine(s, order) /\ UNCHANGED observers
    \/ \E s \in BackfillLines, order \in Orders, empties \in SUBSET (1..Len(paths)) :
          ParseLogsNewFile(s, empties, order) /\ UNCHANGED observers
    \/ \E now \in Nows, order \in Orders, empties \in SUBSET (1..Len(paths)) :
          ParseLogsEnd(empties, now, order) /\ UNCHANGED observers

SpecZone == InitZone /\ [][NextZone]_vars

(***************************************************************************)
(* parse_logs run a second time, on the directory less the .gz files that  *)
(* do not decompress; the files that remain hold the lines they hold in    *)
(* the first run.                                                          *)
(***************************************************************************)
IsCorrupt(p) == p.name.gz /\ p.corrupt
CleanPaths == SelectSeq(paths, LAMBDA p : ~IsCorrupt(p))
\* the place in CleanPaths of the path that is at place i in paths
CleanIndex(i) == Cardinality({ j \in 1..i : ~IsCorrupt(paths[j]) })
CleanEmpties(empties) == { CleanIndex(i) : i \in { j \in empties : ~IsCorrupt(paths[j]) } }
\* lines 643-644: r is what parse_line returned
CleanParsed(st, file_is_new, date_tp, cb, r) ==
    [st EXCEPT !.ctx = r.ctx, !.data = r.data,
               !.clear_before = IF r.read_valid_line THEN FALSE ELSE cb,
               !.last_tp = IF file_is_new THEN date_tp ELSE @]
\* lines 632-644: the body of the loop for the line s of the file name
CleanBody(st, name, s, file_is_new, order) ==
    LET ctx1 == IF file_is_new
                THEN [st.ctx EXCEPT !.cur_filename = name, !.date_tp = st.date_tp]
                ELSE st.ctx
        cb == st.clear_before \/ (file_is_new /\ ctx1.date_tp = st.last_tp)
    IN  CleanParsed(st, file_is_new, ctx1.date_tp, cb,
                    parse_line(s, [ctx1 EXCEPT !.line = st.line], st.data, cb, order))
CleanLine(s, order) ==
    clean' = CleanBody([clean EXCEPT !.line = @ + 1],
                       CleanPaths[clean.path_ind].name, s, FALSE, order)
\* o is what get_next_line found in CleanPaths
CleanOpened(o, s, order) ==
    clean' = IF o.found
             THEN CleanBody([clean EXCEPT !.path_ind = o.path_ind,
                                          !.date_tp = o.date_tp, !.line = 1],
                            CleanPaths[o.path_ind].name, s, TRUE, order)
             ELSE [clean EXCEPT !.diverged = TRUE]
CleanNewFile(s, empties, order) ==
    CleanOpened(OpenNext(CleanPaths, clean.path_ind, clean.date_tp,
                         CleanEmpties(empties), variant.tz, variant.skip_latest_log),
                s, order)
\* c is what clear_all_players left
CleanFlushed(o, c) ==
    clean' = IF o.found THEN [clean EXCEPT !.diverged = TRUE]
             ELSE IF CleanPaths = << >> \/ variant.save_ctx
             THEN [clean EXCEPT !.path_ind = o.path_ind, !.date_tp = o.date_tp]
             ELSE [clean EXCEPT !.path_ind = o.path_ind, !.date_tp = o.date_tp,
                                !.ctx = c.ctx, !.data = c.data]
CleanEnd(empties, now, order) ==
    CleanFlushed(OpenNext(CleanPaths, clean.path_ind, clean.date_tp,
                          CleanEmpties(empties), variant.tz, variant.skip_latest_log),
                 clear_all_players(clean.ctx, clean.data, now, order))

InitSkips ==
    /\ InitWith(SkipPaths, {Playtime, Main(0)}, {NoLatest})
    /\ chunked = NoChunks
    /\ pending = << >>
    /\ opened = << >>
    /\ clean = NoClean
    /\ graph = NoGraph
    /\ watch = NoWatch
    /\ polled = NoPoll
    /\ listing = NoListing
    /\ threads = NoThreads

NextSkips ==
    \/ \E s \in BackfillLines, order \in Orders :
          /\ ParseLogsLine(s, order)
          /\ CleanLine(s, order)
          /\ UNCHANGED << chunkVars, opened, graph, watchVars, listing, threads >>
    \/ \E s \in BackfillLines, order \in Orders, empties \in SUBSET (1..Len(paths)) :
          /\ ParseLogsNewFile(s, empties, order)
          /\ Opened(empties)
          /\ CleanNewFile(s, empties, order)
          /\ UNCHANGED << chunkVars, graph, watchVars, listing, threads >>
    \/ \E now \in Nows, order \in Orders, empties \in SUBSET (1..Len(paths)) :
          /\ ParseLogsEnd(empties, now, order)
          /\ Opened(empties)
          /\ CleanEnd(empties, now, order)
          /\ UNCHANGED << chunkVars, graph, watchVars, listing, threads >>

SpecSkips == InitSkips /\ [][NextSkips]_vars

(***************************************************************************)
(* The backfill of one file whose lines are UUID messages, well formed     *)
(* and not, and the joining and leaving of the player they name.           *)
(***************************************************************************)
UuidLines ==
    { Line(TenOClock, UuidOf("a", TextA)),
      Line(TenOClock, UuidOf("a", TextG)),
      Line(TenOClock, UuidOf("a", TextH)),
      Line(TenOClock, UuidOf("a", TextN)),
      Line(NineOClock, Joined("a")),
      Line(TenOClock, Left("a")) }
InitUuid ==
    /\ InitWith({ << Plain(1, 1) >>, << Plain(1, 1), Plain(1, 2) >> },
                {Playtime, Main(0)}, {NoLatest})
    /\ chunked = NoChunks
    /\ pending = << >>
    /\ opened = << >>
    /\ clean = NoClean
    /\ graph = NoGraph
    /\ watch = NoWatch
    /\ polled = NoPoll
    /\ listing = NoListing
    /\ threads = NoThreads

NextUuid ==
    \/ \E s \in UuidLines, order \in Orders :
          ParseLogsLine(s, order) /\ UNCHANGED observers
    \/ \E s \in UuidLines, order \in Orders, empties \in SUBSET (1..Len(paths)) :
          ParseLogsNewFile(s, empties, order) /\ UNCHANGED observers
    \/ \E now \in Nows, order \in Orders, empties \in SUBSET (1..Len(paths)) :
          ParseLogsEnd(empties, now, order) /\ UNCHANGED observers

SpecUuid == InitUuid /\ [][NextUuid]_vars

(***************************************************************************)
(* main.cpp with the "graph" command: the backfill of one file, the        *)
(* initial parse of latest.log, and create_graph once the mutex is free.   *)
(***************************************************************************)
GraphLines ==
    { Line(NineOClock, UuidOf("a", TextA)),
      Line(NineOClock, UuidOf("b", TextB)),
      Line(NineOClock, Joined("a")),
      Line(NineOClock, Joined("b")),
      Line(TenOClock, Left("b")) }
GraphLatest ==
    { File(TRUE, << >>, Noon(2)),
      File(TRUE, << Line(NineOClock, UuidOf("a", TextA)),
                    Line(TenOClock, Joined("a")) >>, Noon(2)),
      File(TRUE, << Line(NineOClock, UuidOf("b", TextB)),
                    Line(TenOClock, Joined("b")) >>, Noon(2)) }
InitGraph ==
    /\ InitWith({ << Plain(1, 1) >> }, {Main(0)}, GraphLatest)
    /\ chunked = NoChunks
    /\ pending = << >>
    /\ opened = << >>
    /\ clean = NoClean
    /\ graph = NoGraph
    /\ watch = NoWatch
    /\ polled = NoPoll
    /\ listing = NoListing
    /\ threads = NoThreads

NextGraph ==
    \/ \E s \in GraphLines, order \in Orders :
          ParseLogsLine(s, order) /\ UNCHANGED observers
    \/ \E s \in GraphLines, order \in Orders :
          ParseLogsNewFile(s, {}, order) /\ UNCHANGED observers
    \/ \E now \in Nows, order \in Orders, empties \in SUBSET (1..Len(paths)) :
          ParseLogsEnd(empties, now, order) /\ UNCHANGED observers
    \/ MainCommit /\ UNCHANGED observers
    \/ \E order \in Orders : MainStartup(order) /\ UNCHANGED observers
    \/ \E now \in Nows, order \in Orders : CreateGraph(now, order)

SpecGraph == InitGraph /\ [][NextGraph]_vars

(***************************************************************************)
(* main.cpp from the making of the watcher on, on either platform: the OS  *)
(* reports changes in the log directory, the loop polls, handles and       *)
(* sleeps.  latest.log itself stays as main found it.                      *)
(***************************************************************************)
Cookies == {1, 2}
WatchNames == { WatchedName, LongerName, RotatedName }
LinuxNotes ==
    { inotify_event({m}, 0, n) : m \in {"IN_CREATE", "IN_MODIFY"}, n \in WatchNames }
        \cup { inotify_event({m}, c, n) : m \in {"IN_MOVED_FROM", "IN_MOVED_TO"},
                                          c \in Cookies, n \in WatchNames }
        \cup { inotify_event({"IN_Q_OVERFLOW"}, 0, NoName) }
WindowsNotes ==
    { FILE_NOTIFY_INFORMATION(a, n) :
        a \in {"FILE_ACTION_ADDED", "FILE_ACTION_REMOVED", "FILE_ACTION_MODIFIED",
               "FILE_ACTION_RENAMED_OLD_NAME", "FILE_ACTION_RENAMED_NEW_NAME"},
        n \in WatchNames }
NotesOf(backend) == IF backend = "linux" THEN LinuxNotes ELSE WindowsNotes

InitWatch ==
    /\ InitWith({ << >> }, {Main(0)},
                { File(TRUE, << Line(NineOClock, Joined("a")) >>, Noon(2)) })
    /\ chunked = NoChunks
    /\ pending = << >>
    /\ opened = << >>
    /\ clean = NoClean
    /\ graph = NoGraph
    /\ watch \in { [backend |-> "linux", has_value |-> FALSE],
                   [backend |-> "windows", has_value |-> FALSE] }
    /\ polled = NoPoll
    /\ listing = NoListing
    /\ threads = NoThreads

NextWatch ==
    \/ ParseLogsNoPaths /\ UNCHANGED observers
    \/ MainCommitWatched
    \/ \E order \in Orders : MainStartup(order) /\ UNCHANGED observers
    \/ \E note \in NotesOf(watch.backend) : Notify(note)
    \/ Poll
    \/ PollNothing
    \/ Sleep
    \/ HandleCreate /\ UNCHANGED observers
    \/ \E order \in Orders : HandleCreateMoved(order) /\ UNCHANGED observers
    \/ \E order \in Orders : HandleModify(order) /\ UNCHANGED observers
    \/ HandleMovedTo /\ UNCHANGED observers

SpecWatch == InitWatch /\ [][NextWatch]_vars

(***************************************************************************)
(* The properties.                                                         *)
(***************************************************************************)
RECURSIVE SumOfDurations(_)
SumOfDurations(sessions) ==
    IF sessions = << >> THEN 0
    ELSE Head(sessions)[2] + SumOfDurations(Tail(sessions))
Stores == { parse_data, persistent.data, chunked.data }
LastOf(seq) == seq[Len(seq)]

\* what the clear_before step of the last call of parse_line left
AfterClearBefore ==
    IF last.clear_before
    THEN clear_all_players(last.ctx, last.data,
                           last.ctx.date_tp + Value(last.line.ts), last.order)
    ELSE [ctx |-> last.ctx, data |-> last.data, any |-> FALSE]
\* the last line parse_logs gave to parse_line has the words of a join or
\* of a leave
LastIsJoinOrLeave ==
    /\ last.called
    /\ \E n \in Names : last.line.toks \in { Joined(n), Left(n) }
\* the last line is a leave of a name without join instant or identity
LastIsLeaveOfAbsent ==
    /\ last.called
    /\ \E n \in Names :
          /\ last.line.toks = Left(n)
          /\ \/ n \notin DOMAIN last.ctx.player_info
             \/ ~HasValue(last.ctx.player_info[n].uuid)
             \/ ~HasValue(last.ctx.player_info[n].join_time)

\* C1: every entry of the store being built, and of the committed copy of
\* it, has a total equal to the sum of the durations of its sessions.
TotalIsSumOfDurations ==
    \A data \in Stores : \A u \in DOMAIN data :
        data[u].total = SumOfDurations(data[u].sessions)
\* sessions have been recorded by the backfill and by the loop of main, and
\* the backfill's are in the committed copy
TotalsWitness ==
    /\ pc = "poll"
    /\ \E u \in DOMAIN persistent.data : Len(persistent.data[u].sessions) = 1
    /\ \E u \in DOMAIN parse_data :
          /\ Len(parse_data[u].sessions) >= 2
          /\ parse_data[u].total > 0

\* C2: unless latest.log was cut back, renamed or made anew, none of its
\* lines is given to the parser more than once, the initial parse counted.
NoLineFedTwice == \A i \in DOMAIN fed : fed[i] <= 1

\* C3: every session in the store has a duration of zero or more.
DurationsNonNegative ==
    \A u \in DOMAIN parse_data : \A i \in DOMAIN parse_data[u].sessions :
        parse_data[u].sessions[i][2] >= 0

\* C4: a joined at 10:00:00 in the first file of day 1 and did not leave;
\* the first line of the second file of day 1, stamped 09:00:00 and neither
\* a join nor a leave, is parsed with clear_before and records for a the
\* session that starts at 10:00:00 of day 1 and lasts 23:00:00.
FlushBeforeRecords23Hours ==
    ( /\ last.called
      /\ last.clear_before
      /\ cb_calls = << Plain(1, 1) >>
      /\ last.ctx.cur_filename = Dated(1, 2, FALSE)
      /\ last.ctx.line = 1
      /\ last.line = Line(NineOClock, Other)
      /\ "a" \in DOMAIN last.ctx.player_info
      /\ last.ctx.player_info["a"] =
            [uuid |-> Some(UuidA), join_time |-> Some(SecondsPerDay + TenOClock)] )
    => /\ UuidA \in DOMAIN parse_data
       /\ LastOf(parse_data[UuidA].sessions)
             = << SecondsPerDay + TenOClock, 23 * SecondsPerHour >>

\* C5 as amended: while server_stopped is set, a line with the words of a
\* join or of a leave changes neither the online map nor the store beyond
\* what the clear_before step did, and its time stamp counts as read.
StoppedIgnoresJoinLeave ==
    (LastIsJoinOrLeave /\ last.ctx.server_stopped)
    => /\ parse_ctx = AfterClearBefore.ctx
       /\ parse_data = AfterClearBefore.data
       /\ last.read_valid_line
\* a joined while the server was stopped, and is not online
StoppedJoinWitness ==
    /\ last.called
    /\ last.ctx.server_stopped
    /\ last.line.toks = Joined("a")
    /\ \/ "a" \notin DOMAIN parse_ctx.player_info
       \/ ~HasValue(parse_ctx.player_info["a"].join_time)
\* C5 as stated: while server_stopped is set, a join or a leave does to the
\* online map and to the store what it does when the flag is not set.
StoppedLikeRunning ==
    (LastIsJoinOrLeave /\ last.ctx.server_stopped)
    => \E r \in { parse_line(last.line, [last.ctx EXCEPT !.server_stopped = FALSE],
                             last.data, last.clear_before, last.order) } :
          /\ parse_ctx.player_info = r.ctx.player_info
          /\ parse_data = r.data

\* C6: after either stop line is parsed while the server runs, the flag is
\* set and nobody is online.
StopLeavesNobodyOnline ==
    ( /\ last.called
      /\ ~last.ctx.server_stopped
      /\ last.line.toks \in { StoppingServer, StoppingTheServer } )
    => /\ parse_ctx.server_stopped
       /\ get_num_players(parse_ctx) = 0

\* C7 as amended: a leave of a name without join instant or identity adds
\* nothing to the store, which is as the clear_before step left it, and the
\* time stamp of the line counts as read.
RejectedLeaveAddsNothing ==
    LastIsLeaveOfAbsent
    => /\ parse_data = AfterClearBefore.data
       /\ last.read_valid_line
\* b, who was never online, left on the first line of a file, and the
\* clear_before step closed the session of somebody else
RejectedLeaveWitness ==
    /\ last.called
    /\ last.clear_before
    /\ last.line.toks = Left("b")
    /\ "b" \notin DOMAIN last.ctx.player_info
    /\ parse_data # last.data
\* C7 as stated: a leave of a name without join instant or identity leaves
\* the store as it was before the line.
RejectedLeaveStoreUnchanged ==
    LastIsLeaveOfAbsent
    => /\ parse_data = last.data
       /\ last.read_valid_line

\* C8: once parse_lines has been given, in chunks, every line parse_logs has
\* read from the file, the two stores are the same and so are the two
\* online maps.
ChunksAgreeWithLines ==
    pending = << >>
    => /\ chunked.data = parse_data
       /\ chunked.ctx.player_info = parse_ctx.player_info
\* three lines were read, given to parse_lines in two chunks, and left a
\* session in the store
ChunksWitness ==
    /\ pending = << >>
    /\ nread >= 3
    /\ chunked.calls = 2
    /\ chunked.longest = 2
    /\ parse_data # EmptyData

\* the pair left when the lines are parsed one by one, clear_before being
\* set, if clear_first, until a line is recognized
RECURSIVE Reparsed(_, _, _, _, _)
Reparsed(lines, ctx, data, clear_first, order) ==
    IF lines = << >> THEN [ctx |-> ctx, data |-> data]
    ELSE LET r == parse_line(Head(lines), ctx, data, clear_first, order)
         IN  Reparsed(Tail(lines), r.ctx, r.data,
                      clear_first /\ ~r.read_valid_line, order)

\* C9: when the handler of a modify event finds latest.log smaller than
\* prev_size, it leaves the pair that parsing the whole file from the
\* committed pair gives, and prev_size is the size of the file.
TruncationRecovery ==
    (handled.kind = "modify" /\ handled.size < handled.prev_size)
    => /\ prev_size = handled.size
       /\ \E order \in Orders :
             \E r \in { parse_lines(handled.file.lines, handled.S0.ctx,
                                    handled.S0.data, order) } :
                 parse_ctx = r.ctx /\ parse_data = r.data
\* a file that was cut back still holds lines, and a session parsed before
\* it was cut back is gone
TruncationWitness ==
    /\ handled.kind = "modify"
    /\ handled.size < handled.prev_size
    /\ handled.size > 0
    /\ parse_data # handled.S0.data
    /\ \E u \in DOMAIN handled.before.data :
          \/ u \notin DOMAIN parse_data
          \/ Len(parse_data[u].sessions) < Len(handled.before.data[u].sessions)

\* C10: the handler of a create_moved event leaves the pair that results
\* from the committed pair, with the day taken from the modification time
\* of the file, by parsing the whole file with clear_before set until a
\* line is recognized, and prev_size is the size of the file.
RenamedIntoReparsed ==
    handled.kind = "create_moved"
    => /\ prev_size = handled.size
       /\ \E order \in Orders :
             \E r \in { Reparsed(handled.file.lines,
                                 [handled.S0.ctx EXCEPT !.date_tp =
                                     file_modification_date(handled.file.mtime,
                                                            variant.tz)],
                                 handled.S0.data, TRUE, order) } :
                 parse_ctx = r.ctx /\ parse_data = r.data

(***************************************************************************)
(* C11.  When parse_logs has returned, read_file_cb has been called once   *)
(* for each file that get_next_line gave a stream and read to its end, in  *)
(* the order of read_ctx.paths, and for no file that it skipped.  Whether  *)
(* a file that holds no line has a call is left open.                      *)
(***************************************************************************)
FedFiles == SelectSeq(opened, LAMBDA o : ~o.empty)
EmptyFiles == { paths[opened[k].path] : k \in { i \in DOMAIN opened : opened[i].empty } }
CallbackOncePerFedFile ==
    pc = "returned" =>
        /\ SelectSeq(cb_calls, LAMBDA p : p \notin EmptyFiles)
              = [k \in DOMAIN FedFiles |-> paths[FedFiles[k].path]]
        /\ \A i \in DOMAIN cb_calls : ~Skipped(cb_calls[i], variant.skip_latest_log)
(***************************************************************************)
(* C12.  A "UUID of player <name> is <text>" line whose 36 character text  *)
(* has a character that is no hexadecimal digit in one of the 32 digit     *)
(* positions, or no hyphen at position 8, 13, 18 or 23, leaves the         *)
(* identity on file for <name> and the store as they were.  (The calls     *)
(* told to flush first are left aside: there the flush alters the store.)  *)
(***************************************************************************)
HyphenPositions == {9, 14, 19, 24}
HexCharacters ==
    { DecDigits[i] : i \in DOMAIN DecDigits } \cup { LowerHex[i] : i \in DOMAIN LowerHex }
        \cup { UpperHex[i] : i \in DOMAIN UpperHex }
Malformed(chars) ==
    \/ \E i \in HyphenPositions : chars[i] # "-"
    \/ \E i \in (1..36) \ HyphenPositions : chars[i] \notin HexCharacters
LastIsMalformedUuid ==
    /\ last.called
    /\ ~last.clear_before
    /\ Len(last.line.toks) = 6
    /\ SubSeq(last.line.toks, 1, 3) = <<"UUID", "of", "player">>
    /\ last.line.toks[5] = "is"
    /\ Len(CharsOf(last.line.toks[6])) = 36
    /\ Malformed(CharsOf(last.line.toks[6]))
MalformedUuidRejected ==
    LastIsMalformedUuid =>
        /\ parse_data = last.data
        /\ parse_ctx.player_info = last.ctx.player_info
(***************************************************************************)
(* C13.  create_graph(parse_data, parse_ctx) adds, for every entry of the  *)
(* context that has both an identity and a join instant, the session       *)
(* (join instant, now - join instant) to the record of that identity, also *)
(* when the store has no record of it, and adds nothing to the record of   *)
(* any other identity.                                                     *)
(***************************************************************************)
OnlineNames(ctx) ==
    { n \in DOMAIN ctx.player_info :
        HasValue(ctx.player_info[n].uuid) /\ HasValue(ctx.player_info[n].join_time) }
OnlineAs(ctx, u) == { n \in OnlineNames(ctx) : Value(ctx.player_info[n].uuid) = u }
OpenSession(ctx, n, now) ==
    << Value(ctx.player_info[n].join_time), now - Value(ctx.player_info[n].join_time) >>
OpenSessionsInOwnRecord ==
    graph.made =>
        /\ ~graph.thrown
        /\ \A n \in OnlineNames(graph.ctx) :
              \E i \in DOMAIN graph.log_info :
                  graph.log_info[i].first = Value(graph.ctx.player_info[n].uuid)
        /\ \A i \in DOMAIN graph.log_info :
              LET u == graph.log_info[i].first
                  now_has == graph.log_info[i].second.sessions
                  had == Entry(graph.data, u).sessions
              IN  /\ Len(now_has) = Len(had) + Cardinality(OnlineAs(graph.ctx, u))
                  /\ SubSeq(now_has, 1, Len(had)) = had
                  /\ \A k \in (Len(had) + 1)..Len(now_has) :
                        \E n \in OnlineAs(graph.ctx, u) :
                            now_has[k] = OpenSession(graph.ctx, n, graph.now)
(***************************************************************************)
(* The notifications as the claims about the watcher name them.            *)
(***************************************************************************)
IsWatched(note) == note.name.chars = WatchedChars
RenamedFrom(ctx, note) ==
    IF ctx.backend = "linux" THEN "IN_MOVED_FROM" \in note.mask
    ELSE note.Action = "FILE_ACTION_RENAMED_OLD_NAME"
RenamedTo(ctx, note) ==
    IF ctx.backend = "linux" THEN "IN_MOVED_TO" \in note.mask
    ELSE note.Action = "FILE_ACTION_RENAMED_NEW_NAME"
SameRename(ctx, from, to) ==
    ctx.backend = "linux" => from.cookie # 0 /\ from.cookie = to.cookie
PendingRename(ctx) == IF ctx.backend = "linux" THEN ctx.cookie # 0 ELSE ctx.moved
FlagsSet(res) == res.event_create \/ res.event_create_moved \/ res.event_modify

(***************************************************************************)
(* C14.  Once poll has processed a notification that is not a renamed-from *)
(* of the watched name, the watcher holds no pending rename: cookie is 0   *)
(* (Linux), moved is false (Windows).                                      *)
(***************************************************************************)
NoPendingRenameAfterOther ==
    (polled.done /\ ~(RenamedFrom(polled.before, polled.note) /\ IsWatched(polled.note)))
        => ~PendingRename(polled.after)

(***************************************************************************)
(* C15.  When the OS reports a rename of the watched file as a             *)
(* renamed-from followed by a renamed-to of the same rename, poll returns  *)
(* state 2 (more available) for the first and, for the second, one event:  *)
(* moved_to is the new name and event_create, event_create_moved and       *)
(* event_modify are false.                                                 *)
(***************************************************************************)
RenamePairPolled ==
    /\ polled.done
    /\ polled.prev.done
    /\ RenamedFrom(polled.before, polled.prev.note)
    /\ IsWatched(polled.prev.note)
    /\ RenamedTo(polled.before, polled.note)
    /\ SameRename(polled.before, polled.prev.note, polled.note)
RenamePairIsOneEvent ==
    RenamePairPolled =>
        /\ polled.prev.res = ReadMore
        /\ polled.res = Result(1, FALSE, FALSE, FALSE, Some(polled.note.name))
RenamePairWitness ==
    /\ RenamePairPolled
    /\ polled.note.name = RotatedName
    /\ handled.kind = "moved_to"
    /\ read_files # << >>

(***************************************************************************)
(* C16.  poll returns an event with event_create, event_create_moved or    *)
(* event_modify set only for a notification whose name is the watched      *)
(* name; a notification for any other name, the names the watched name is  *)
(* a proper prefix of among them, yields state 2, unless it is the         *)
(* renamed-to that completes a pending rename.                             *)
(***************************************************************************)
EventsOnlyForWatchedName ==
    (polled.done /\ ~IsWatched(polled.note)) =>
        /\ ~(polled.res.state = 1 /\ FlagsSet(polled.res))
        /\ (PendingRename(polled.before) /\ RenamedTo(polled.before, polled.note))
              \/ polled.res = ReadMore

(***************************************************************************)
(* C17.  The loop of main sleeps only after a poll that returned state 0   *)
(* (no data): after state 2 (read more), and after state 1, the next thing *)
(* the loop does is poll again.                                            *)
(***************************************************************************)
SleepsOnlyAfterNoData ==
    /\ pc = "sleep" => polled.state = 0
    /\ (polled.done /\ polled.state = 2) => pc = "poll" /\ events = << >>
ReadMoreWitness ==
    /\ polled.done
    /\ polled.state = 2
    /\ pc = "poll"
    /\ watch.inbox # << >>
ReadsDatedFile ==
    /\ pc = "parse_logs"
    /\ read_ctx.open
    /\ paths[read_ctx.path_ind].name.kind = "dated"
DatedBaselineInTargetZone ==
    ReadsDatedFile =>
        parse_ctx.date_tp =
            file_modification_date(Noon(paths[read_ctx.path_ind].name.day), variant.tz)
(***************************************************************************)
(* C20.  Of the regular files of the directory, read_ctx.paths holds those *)
(* and only those that are named latest.log or YYYY-MM-DD-N.log or         *)
(* YYYY-MM-DD-N.log.gz, or YYYY-MM-DD.log or YYYY-MM-DD.log.gz without the *)
(* sequence -N; of two files that differ only in .gz one stands for both.  *)
(* As amended: the sequence -N, of one digit at least, is required, and    *)
(* latest.log is held only when parse_logs is not told to skip it.         *)
(***************************************************************************)
\* YYYY-MM-DD
HasDate(p_str) ==
    /\ \A i \in {0, 1, 2, 3, 5, 6, 8, 9} : is_digit(At(p_str, i))
    /\ \A i \in {4, 7} : At(p_str, i) = "-"
\* what follows the date from the place ind on is -N
IsSequence(p_str, ind, end) ==
    /\ end >= ind + 2
    /\ At(p_str, ind) = "-"
    /\ \A i \in (ind + 1)..(end - 1) : is_digit(At(p_str, i))
\* YYYY-MM-DD[-N].log[.gz], or with the sequence required YYYY-MM-DD-N.log[.gz]
HasShape(p_str, optional) ==
    /\ HasDate(p_str)
    /\ \E end \in 10..Len(p_str) :
          /\ From(p_str, end) \in {ExtLog, ExtLogGz}
          /\ IF end = 10 THEN optional ELSE IsSequence(p_str, 10, end)
Retained(e) ==
    \E i \in DOMAIN listing.paths :
        \/ listing.paths[i] = e
        \/ /\ extension(e.name) \in {ExtGz, ExtLog}
           /\ filename_no_ext(listing.paths[i]) = filename_no_ext(e)
DayBaseline(p) ==
    IF ~variant.skip_latest_log /\ p.name.kind = "latest"
    THEN file_modification_date(p.mtime, variant.tz)
    ELSE FileNameDate(p.name)
SameDayAsPreceding(i) == i > 1 /\ DayBaseline(paths[i]) = DayBaseline(paths[i - 1])
OnlineKnown(ctx) ==
    { n \in DOMAIN ctx.player_info :
        HasValue(ctx.player_info[n].uuid) /\ HasValue(ctx.player_info[n].join_time) }
\* the session of n that is open in ctx was closed at the instant t, once
ClosedAt(ctx, n, t, before, after) ==
    LET uuid == Value(ctx.player_info[n].uuid)
        join == Value(ctx.player_info[n].join_time)
    IN  /\ uuid \in DOMAIN after
        /\ after[uuid].sessions = Append(Entry(before, uuid).sessions, <<join, t - join>>)
EntersFile ==
    /\ pc = "parse_logs"
    /\ read_ctx'.open
    /\ read_ctx'.path_ind # read_ctx.path_ind
    /\ last'.read_valid_line
FlushOnEnteringSameDay ==
    [][EntersFile =>
         IF SameDayAsPreceding(read_ctx'.path_ind)
         THEN \A n \in OnlineKnown(parse_ctx) :
                 ClosedAt(parse_ctx, n, last'.ctx.date_tp + Value(last'.line.ts),
                          parse_data, parse_data')
         ELSE clear_before \/ ~last'.clear_before]_vars
(***************************************************************************)
(* C22.  When main handles a moved_to result whose name ends in ".log",    *)
(* persistent_data_ctx becomes the pair of parse_data and parse_ctx, the   *)
(* name without ".log" is appended once to read_files and prev_size is 0;  *)
(* parse_data and parse_ctx are left as they are.                          *)
(***************************************************************************)
\* the step is main's handling of the moved_to result that waits
HandlesMovedTo ==
    /\ pc = "poll"
    /\ events # << >>
    /\ Head(events).kind = "moved_to"
    /\ events' = Tail(events)
MovedToLogCommits ==
    [][HandlesMovedTo /\ ~Head(events).name.gz =>
         /\ persistent' = [ctx |-> parse_ctx, data |-> parse_data]
         /\ read_files' = Append(read_files,
                                 log_filename_no_ext(Head(events).name, FALSE))
         /\ prev_size' = 0
         /\ UNCHANGED << parse_ctx, parse_data >>]_vars
MovedToLogWitness ==
    /\ handled.kind = "moved_to"
    /\ handled.S0 # persistent
    /\ persistent = [ctx |-> parse_ctx, data |-> parse_data]
    /\ persistent.data # EmptyData
    /\ handled.prev_size > 0
    /\ prev_size = 0
    /\ read_files = << log_filename_no_ext(Dated(1, 1, FALSE), FALSE),
                       log_filename_no_ext(Dated(1, 2, FALSE), FALSE) >>

(***************************************************************************)
(* C23.  When main handles a moved_to result whose name does not end in    *)
(* ".log", persistent_data_ctx, read_files, parse_data, parse_ctx and      *)
(* prev_size are left as they are.  As amended: all are left as they are   *)
(* but prev_size, which is set to 0.                                       *)
(***************************************************************************)
MovedToOtherChangesNothing ==
    [][HandlesMovedTo /\ Head(events).name.gz =>
         UNCHANGED << persistent, read_files, parse_data, parse_ctx, prev_size >>]_vars
MovedToOtherResetsCursor ==
    [][HandlesMovedTo /\ Head(events).name.gz =>
         /\ UNCHANGED << persistent, read_files, parse_data, parse_ctx >>
         /\ prev_size' = 0]_vars
MovedToOtherWitness ==
    /\ handled.kind = "moved_to"
    /\ handled.S0 = persistent
    /\ handled.before = [ctx |-> parse_ctx, data |-> parse_data]
    /\ persistent # [ctx |-> parse_ctx, data |-> parse_data]
    /\ handled.prev_size > 0
    /\ prev_size = 0
(***************************************************************************)
(* C24.  In every entry of the store no name of names is followed by the   *)
(* same name, whatever lines parse_line was given: leaves of one name,     *)
(* leaves of two names of one identity, flushes.                           *)
(***************************************************************************)
NoNameTwiceInARow ==
    \A u \in DOMAIN parse_data :
        \A i \in 1..(Len(parse_data[u].names) - 1) :
            parse_data[u].names[i] # parse_data[u].names[i + 1]
NameChangeWitness ==
    \E u \in DOMAIN parse_data :
        /\ parse_data[u].names = << "a", "b" >>
        /\ Len(parse_data[u].sessions) = 3
(***************************************************************************)
(* C25.  In every entry of the store the sessions are in the order of      *)
(* their start instants: no session starts before the one recorded before  *)
(* it.                                                                     *)
(***************************************************************************)
SessionsInStartOrder ==
    \A u \in DOMAIN parse_data :
        \A i \in 1..(Len(parse_data[u].sessions) - 1) :
            parse_data[u].sessions[i][1] <= parse_data[u].sessions[i + 1][1]
(***************************************************************************)
(* C26.  After a line "<name> joined the game", with or without            *)
(* "(formerly known as ...)", the join instant of <name> is the instant of *)
(* the line, whether an identity is on file for <name> or not, and the     *)
(* record of that identity has the sessions it had: none is appended for a *)
(* join instant that was on file.  As amended: this is so while            *)
(* server_stopped is not set, and the store is as the clear_before step    *)
(* left it, which closes the earlier join when it is asked for.            *)
(***************************************************************************)
JoinsOf(n) == { Joined(n) } \cup { Formerly(n, old) : old \in Names }
LastIsJoinOf(n) ==
    /\ last.called
    /\ HasValue(last.line.ts)
    /\ last.line.tag
    /\ last.line.toks \in JoinsOf(n)
LastInstant == last.ctx.date_tp + Value(last.line.ts)
\* the sessions on record for the identity that ctx has on file for n
SessionsOf(ctx, data, n) ==
    IF n \in DOMAIN ctx.player_info /\ HasValue(ctx.player_info[n].uuid)
    THEN Entry(data, Value(ctx.player_info[n].uuid)).sessions
    ELSE << >>
JoinSetsInstant ==
    \A n \in Names :
        LastIsJoinOf(n) =>
            /\ n \in DOMAIN parse_ctx.player_info
            /\ parse_ctx.player_info[n].join_time = Some(LastInstant)
            /\ SessionsOf(last.ctx, parse_data, n) = SessionsOf(last.ctx, last.data, n)
JoinSetsInstantUnlessStopped ==
    \A n \in Names :
        (LastIsJoinOf(n) /\ ~last.ctx.server_stopped) =>
            /\ n \in DOMAIN parse_ctx.player_info
            /\ parse_ctx.player_info[n].join_time = Some(LastInstant)
            /\ parse_ctx.player_info[n].uuid = Touch(last.ctx.player_info, n)[n].uuid
            /\ parse_data = AfterClearBefore.data
JoinOverwritesWitness ==
    /\ LastIsJoinOf("a")
    /\ last.line.toks = Formerly("a", "b")
    /\ ~last.ctx.server_stopped
    /\ ~last.clear_before
    /\ "a" \in DOMAIN last.ctx.player_info
    /\ last.ctx.player_info["a"] =
          [uuid |-> ParsedA, join_time |-> Some(SecondsPerDay + NineOClock)]
    /\ parse_ctx.player_info["a"].join_time = Some(SecondsPerDay + TenOClock)
    /\ parse_data = last.data
(***************************************************************************)
(* C27.  parse_line changes server_stopped from FALSE to TRUE only on a    *)
(* line "Stopping server" or "Stopping the server", and from TRUE to FALSE *)
(* only on a line that begins "Starting minecraft server version",         *)
(* processed while the flag is set; every other line leaves the flag.      *)
(***************************************************************************)
LastIsStopMessage ==
    /\ HasValue(last.line.ts)
    /\ last.line.tag
    /\ last.line.toks \in { StoppingServer, StoppingTheServer }
LastIsStartMessage ==
    /\ HasValue(last.line.ts)
    /\ last.line.tag
    /\ Len(last.line.toks) >= 4
    /\ SubSeq(last.line.toks, 1, 4) = SubSeq(Starting, 1, 4)
StoppedFlagTransitions ==
    last.called =>
        /\ (~last.ctx.server_stopped /\ parse_ctx.server_stopped)
               => LastIsStopMessage
        /\ (last.ctx.server_stopped /\ ~parse_ctx.server_stopped)
               => LastIsStartMessage
        /\ (~LastIsStopMessage /\ ~LastIsStartMessage)
               => parse_ctx.server_stopped = last.ctx.server_stopped
StoppedFlagClearedWitness ==
    /\ last.called
    /\ last.ctx.server_stopped
    /\ ~parse_ctx.server_stopped
    /\ last.line.toks = Starting
(***************************************************************************)
(* C28.  A line whose timestamp does not parse, or whose bracketed tag and *)
(* ':' are not well formed, makes parse_line return (false, false) and     *)
(* leaves the store, the online map, the identities and server_stopped as  *)
(* they were, also when clear_before was requested; parse_logs then keeps  *)
(* the request for the next line.                                          *)
(***************************************************************************)
LastIsInvalid ==
    /\ last.called
    /\ (~HasValue(last.line.ts) \/ ~last.line.tag)
InvalidLineChangesNothing ==
    LastIsInvalid =>
        /\ ~last.read_valid_line
        /\ ~last.player_join_left
        /\ parse_data = last.data
        /\ parse_ctx.player_info = last.ctx.player_info
        /\ parse_ctx.server_stopped = last.ctx.server_stopped
        /\ clear_before = last.clear_before
InvalidFirstLineWitness ==
    /\ LastIsInvalid
    /\ HasValue(last.line.ts)
    /\ last.clear_before
    /\ clear_before
    /\ OnlineKnown(last.ctx) # {}
    /\ parse_ctx.player_info = last.ctx.player_info
(***************************************************************************)
(* C29.  The list that enumeration leaves is in ascending order of date    *)
(* and then of sequence, the sequences compared as integers (-9 before     *)
(* -10), and latest.log, when it is listed, is the last element.           *)
(***************************************************************************)
\* the name l is of an earlier date than r, or of the same date and a
\* smaller sequence
NamedBefore(l, r) ==
    \/ DateLess(l, r)
    \/ DateEqual(l, r) /\ NumLess(SeqDigits(l), SeqDigits(r))
SortedByDateThenSequence ==
    /\ \A i \in DOMAIN listing.paths :
          listing.paths[i].name = NameLatest => i = Len(listing.paths)
    /\ \A i, j \in DOMAIN listing.paths :
          (i < j /\ NameLatest \notin { listing.paths[i].name, listing.paths[j].name })
              => ~NamedBefore(listing.paths[j].name, listing.paths[i].name)
(***************************************************************************)
(* C30.  In the list that enumeration leaves no two files name the same    *)
(* date and sequence: of X.log and X.log.gz one is kept.                   *)
(***************************************************************************)
NoTwoOfOneDateAndSequence ==
    \A i, j \in DOMAIN listing.paths :
        i # j => filename_no_ext(listing.paths[i]) # filename_no_ext(listing.paths[j])
(***************************************************************************)
(* C31.  When parse_logs returns without save_ctx, every player that was   *)
(* online with a known identity has the session (join, now - join) in the  *)
(* store returned; with save_ctx the store gets no session and the context *)
(* is returned as the loop left it, join instants included.                *)
(***************************************************************************)
ParseLogsReturns == pc = "parse_logs" /\ pc' = "returned"
HasSession(data, uuid, session) ==
    /\ uuid \in DOMAIN data
    /\ \E i \in DOMAIN data[uuid].sessions : data[uuid].sessions[i] = session
EndFlushUnlessSaved ==
    [][ParseLogsReturns =>
         IF variant.save_ctx
         THEN UNCHANGED << parse_ctx, parse_data >>
         ELSE \A n \in OnlineKnown(parse_ctx), now \in Nows :
                 HasSession(parse_data', Value(parse_ctx.player_info[n].uuid),
                            << Value(parse_ctx.player_info[n].join_time),
                               now - Value(parse_ctx.player_info[n].join_time) >>)]_vars
\* a session that ends at the instant the backfill ended
EndFlushWitness ==
    /\ pc = "returned"
    /\ ~variant.save_ctx
    /\ \E uuid \in DOMAIN parse_data, now \in Nows :
          \E i \in DOMAIN parse_data[uuid].sessions :
             parse_data[uuid].sessions[i][1] + parse_data[uuid].sessions[i][2] = now
\* with save_ctx a player is still online in the context returned
EndSavedWitness ==
    /\ pc = "returned"
    /\ variant.save_ctx
    /\ OnlineKnown(parse_ctx) # {}
(***************************************************************************)
(* C33.  When a handler of the loop of main gives lines of latest.log to   *)
(* parse_lines (the appended range, the whole file after it shrank, the    *)
(* whole file after a rename to latest.log), the day of the context they   *)
(* are parsed with is the one update_date_tp last computed from the        *)
(* modification time of latest.log, not one copied from                    *)
(* persistent_data_ctx.                                                    *)
(***************************************************************************)
\* the last handler gave lines to parse_lines
HandlerFedLines ==
    \/ handled.kind = "create_moved" /\ handled.size > 0
    \/ /\ handled.kind = "modify"
       /\ handled.size > 0
       /\ (handled.size > handled.prev_size \/ handled.size < handled.prev_size)
TailBaselineFromFile ==
    HandlerFedLines => parse_ctx.date_tp = handled.baseline
(***************************************************************************)
(* C34.  When main has handled a result of watcher.poll(),                 *)
(* last_player_count, the count last given to the presence, is the number  *)
(* of entries of parse_ctx.player_info that have a join instant; also      *)
(* after latest.log shrank and persistent_data_ctx was copied back.        *)
(***************************************************************************)
HandledEvent == handled.kind \in { "create", "create_moved", "modify", "moved_to" }
PlayerCountFollowsContext ==
    HandledEvent => last_player_count = get_num_players(parse_ctx)
(***************************************************************************)
(* C35.  A call of parse_line that changes the number of entries with a    *)
(* join instant returns player_join_left = true, and parse_lines returns   *)
(* true when a line of its chunk did: a chunk that changes that number     *)
(* makes parse_lines return true, so that main calls update_player_count.  *)
(***************************************************************************)
CountChangeReported ==
    /\ (last.called /\ get_num_players(last.ctx) # get_num_players(parse_ctx))
           => last.player_join_left
    /\ (chunked.calls > 0
           /\ get_num_players(chunked.before) # get_num_players(chunked.ctx))
           => chunked.changed
\* a chunk of two lines, the first a join and the second no change
CountChangeWitness ==
    /\ chunked.calls = 1
    /\ chunked.longest = 2
    /\ get_num_players(chunked.before) = 0
    /\ get_num_players(chunked.ctx) = 1
    /\ chunked.changed
    /\ pending = << >>
    /\ last.called
    /\ ~last.player_join_left
(***************************************************************************)
(* C36.  In every state that feeding lines to parse_line reaches, if       *)
(* server_stopped is set then no entry of player_info has both a uuid and  *)
(* a join instant.                                                         *)
(***************************************************************************)
StoppedMeansNobodyOnlineKnown ==
    parse_ctx.server_stopped => OnlineKnown(parse_ctx) = {}
\* the stop message found a player online, and a join followed it
StoppedAfterFlushWitness ==
    /\ parse_ctx.server_stopped
    /\ last.called
    /\ last.ctx.server_stopped
    /\ LastIsJoinOf("a")
    /\ "a" \in DOMAIN parse_ctx.player_info
    /\ HasValue(parse_ctx.player_info["a"].uuid)
    /\ \E u \in DOMAIN parse_data : parse_data[u].sessions # << >>
(***************************************************************************)
(* C37.  Every identity in the store has at least one session and at least *)
(* one display name: the entry is inserted when its first session is       *)
(* closed, and neither a UUID message nor a join inserts one.              *)
(***************************************************************************)
StoredIdentitiesHaveSessions ==
    \A u \in DOMAIN parse_data :
        /\ parse_data[u].sessions # << >>
        /\ parse_data[u].names # << >>
\* the first session of an identity is closed by a leave; before it the
\* identity was known and online, and not in the store
FirstSessionWitness ==
    /\ last.called
    /\ LastIsJoinOrLeave
    /\ last.line.toks = Left("a")
    /\ OnlineKnown(last.ctx) # {}
    /\ last.data = EmptyData
    /\ \E u \in DOMAIN parse_data : Len(parse_data[u].sessions) = 1
(***************************************************************************)
(* C32.  A command that holds parse_data_ctx_mutex and reads parse_data    *)
(* and parse_ctx never does so while main is inside a handler that copies  *)
(* persistent_data_ctx back and parses the file again, or that parses an   *)
(* appended range: it reads the pair as it is before or after the handler. *)
(***************************************************************************)
Reading == { c \in Commands : threads.cmd[c].pc = "read" }
ReadersSeeWholeHandlers ==
    \A c \in Reading :
        /\ threads.mutex = ByCommand(c)
        /\ threads.step = "none"
\* a command that waited for the mutex while main was between the copy and
\* the end of the parse, and reads now
ReaderWaitedWitness == \E c \in threads.waited : c \in Reading

(***************************************************************************)
(* C38.  No command reads parse_data or parse_ctx before parse_logs has    *)
(* returned and latest.log has been parsed as it was found: main holds the *)
(* mutex from before the bot is started until then.                        *)
(***************************************************************************)
NoReadBeforeStartupDone == Reading # {} => pc = "poll"
\* a command that arrived and waited during the startup, and reads now
EarlyCommandWitness == \E c \in threads.early : c \in Reading

(***************************************************************************)
(* C39.  Of the graph commands whose rate limit checks fall within one     *)
(* window of 60 seconds at most one passes the check.                      *)
(***************************************************************************)
Passed == { c \in Commands : threads.cmd[c].kind = "graph" /\ threads.cmd[c].passed }
OneGraphPerWindow ==
    \A c, d \in Passed :
        c # d =>
            \/ threads.cmd[c].now - threads.cmd[d].now >= RateLimit
            \/ threads.cmd[d].now - threads.cmd[c].now >= RateLimit
====
